---- MODULE Spec2Model ----
(***************************************************************************)
(* Discord -> KOOK relay and Steam price watch.                            *)
(*                                                                         *)
(* Two state machines share this module:                                   *)
(*   RelaySpec  one run of MessageForwarder.forward_message                *)
(*              (src/message_forwarder.py, src/forward_config.py)          *)
(*   WatchSpec  the tasks of one SteamMonitor on its asyncio event loop    *)
(*              (src/steam_monitor.py)                                     *)
(* Every outcome of an external call (KOOK client, HTTP, file system,      *)
(* Steam API) is chosen by the environment with \E.                        *)
(***************************************************************************)
EXTENDS Integers, Sequences, FiniteSets, TLC

VARIABLES
    \* ---- relay (message_forwarder.py) ----
    config,            \* ForwardConfig: FORWARD_RULES, forward_rules, forward_bot_messages
    translator_enabled,\* Translator.is_enabled()
    msg,               \* the inbound discord_message; attachments is their number,
                       \* each filename is read when the loop reaches it
    fpc,               \* position inside forward_message and its callees
    kook_channel_id,   \* local of forward_message
    forwarded_content, \* local of forward_message
    translated_content,\* what translate_text gave _build_forward_message
    success,           \* local of forward_message
    result,            \* value returned by forward_message (read at fpc = "done")
    att_i,             \* index of the attachment _forward_attachments is at
    stm,               \* the running _send_text_message call
    cur,               \* the attachment being processed by _send_file_to_kook
    effects,           \* kinds of external calls made so far
    text_delivered,    \* the forwarded text reached the KOOK channel
    att_results,       \* outcome of each attachment processed so far
    \* ---- price watch (steam_monitor.py) ----
    data_initialized,  \* SteamMonitor.data_initialized (asyncio.Event)
    app_dict_all,      \* name -> appid, in insertion order
    app_dict_all_reverse, \* appid -> name
    game_list,         \* content of data/steam/game_list.json
    refresh,           \* get_app_list: calls that returned, outcome of the last
    monitor_list,      \* the in-memory watch-list store (a dict, in slot order)
    file,              \* content of data/steam/monitor_list.json
    lock,              \* monitor_list_lock: holder and FIFO of waiters
    tasks,             \* the coroutines of the event loop, by slot
    running,           \* the task that holds the event loop (0: all suspended)
    ops_started,       \* operations started so far
    errors,            \* exceptions that ended an operation
    last,              \* the operation that returned last, and its result
    \* ---- translation (translator.py) ----
    enabled,           \* Translator.enabled
    service,           \* Translator.service (None when none was created)
    whitelist,         \* Translator.whitelist
    text,              \* argument of translate_text, as its lines
    tpc,               \* position inside translate_text
    parts,             \* local of translate_text
    part_i,            \* index of the part the loop of line 493 is at
    tr_result,         \* local result of translate_text
    provider_calls,    \* texts handed to service.translate, with the outcome
    tr_return,         \* value returned by translate_text
    \* ---- recurring tasks (message_forwarder.py, cleanup.py, discord_bot.py) ----
    loops,             \* position of each recurring task, outcome of its last tick
    \* ---- the two bots (discord_bot.py, kook.py) ----
    steam_monitors,    \* monitor_list of each bot's own SteamMonitor
    \* ---- downloaded files (message_forwarder.py, cleanup.py) ----
    disk,              \* the entries of the download directory
    sweep,             \* the running pass of a periodic sweep
    ttl                \* the scheduled deletion of one downloaded file

relayVars == <<config, translator_enabled, msg, fpc, kook_channel_id,
               forwarded_content, translated_content, success, result, att_i,
               stm, cur, effects, text_delivered, att_results>>

watchVars == <<data_initialized, app_dict_all, app_dict_all_reverse,
               game_list, refresh, monitor_list, file, lock, tasks, running, ops_started, errors,
               last>>

translateVars == <<enabled, service, whitelist, text, tpc, parts, part_i,
                   tr_result, provider_calls, tr_return>>

loopVars == <<loops>>

botsVars == <<steam_monitors>>

sweepVars == <<disk, sweep, ttl>>

vars == <<relayVars, watchVars, translateVars, loopVars, botsVars, sweepVars>>

None == "None"

(***************************************************************************)
(* Bounds and input domains of the relay                                   *)
(***************************************************************************)
MaxAttachments == 2

DiscordChannels == {"d1", "d2"}

\* values of FORWARD_RULES, as the pairs between the commas, each pair as
\* what stands before and after its first colon (one element when it has no
\* colon): the empty string; "d1:"; "d11:k1,d2"; "d1:k2, d1 : k1 "
RuleStrings ==
    { <<>>,
      << <<"d1", "">> >>,
      << <<"d11", "k1">>, <<"d2">> >>,
      << <<"d1", "k2">>, <<" d1 ", " k1 ">> >> }

\* str.strip() on the identifiers of a rule
StripId(s) ==
    CASE s = " d1 " -> "d1"
      [] s = " k1 " -> "k1"
      [] OTHER -> s

\* rules[discord_id] = kook_id
SetRule(rules, discord_id, kook_id) ==
    [c \in DOMAIN rules \cup {discord_id} |->
        IF c = discord_id THEN kook_id ELSE rules[c]]

\* the loop of _parse_forward_rules (lines 29-32) over the pairs left
RECURSIVE ParseFrom(_, _)
ParseFrom(pairs, rules) ==
    IF pairs = <<>> THEN rules
    ELSE LET pair == Head(pairs)
         IN  IF Len(pair) = 2
             THEN ParseFrom(Tail(pairs),
                            SetRule(rules, StripId(pair[1]), StripId(pair[2])))
             ELSE ParseFrom(Tail(pairs), rules)

\* _parse_forward_rules (lines 14-37)
_parse_forward_rules(rules_str) == ParseFrom(rules_str, [c \in {} |-> "k1"])

\* the forward_rules tables of the configurations: no rule, d1 -> "",
\* d11 -> k1 and d1 -> k1
RuleTables == {_parse_forward_rules(s) : s \in RuleStrings}

\* ForwardConfig.__init__ (lines 8-12) for the environment given
ForwardConfig(rules_str, bot_messages) ==
    [rules_str |-> rules_str,
     forward_rules |-> _parse_forward_rules(rules_str),
     forward_bot_messages |-> bot_messages]

Contents == {"", "hi"}

\* file extensions as they appear in attachment.filename
Extensions == {".png", ".mp4", ".SVG", ".txt"}

max_retries == 3
RetryDelay == 1
MaxFileSize == 20 * 1024 * 1024

FileSizes == {MaxFileSize, MaxFileSize + 1, 21 * 1024 * 1024}

(***************************************************************************)
(* forward_config.py                                                       *)
(***************************************************************************)
should_forward_message_nobot(cfg, is_bot) == TRUE

should_forward_message(cfg, is_bot) ==
    IF is_bot /\ ~cfg.forward_bot_messages THEN FALSE ELSE TRUE

\* a lookup that takes a source that starts with the channel for the channel
get_kook_channel_id_prefix(cfg, discord_channel_id) ==
    IF discord_channel_id \in DOMAIN cfg.forward_rules
    THEN cfg.forward_rules[discord_channel_id]
    ELSE IF discord_channel_id = "d1" /\ "d11" \in DOMAIN cfg.forward_rules
         THEN cfg.forward_rules["d11"]
         ELSE None

get_kook_channel_id(cfg, discord_channel_id) ==
    IF discord_channel_id \in DOMAIN cfg.forward_rules
    THEN cfg.forward_rules[discord_channel_id]
    ELSE None

\* Python truthiness of the looked-up destination: None and "" are falsy
Truthy(s) == s # None /\ s # ""

(***************************************************************************)
(* message_forwarder.py: pure helpers                                      *)
(***************************************************************************)
\* str.lower() on the extensions of the model
Lower(ext) ==
    CASE ext = ".SVG" -> ".svg"
      [] ext = ".PNG" -> ".png"
      [] OTHER -> ext

unsupported_formats == {".svg", ".webp", ".tiff", ".psd"}
image_extensions == {".jpg", ".jpeg", ".png", ".gif", ".bmp", ".webp"}
video_extensions == {".mp4", ".avi", ".mov", ".wmv", ".flv", ".webm", ".mkv"}

_is_image_file(ext) == Lower(ext) \in image_extensions
_is_video_file(ext) == Lower(ext) \in video_extensions

IsUnsupported(ext) == Lower(ext) \in unsupported_formats

IsOversize_ge(size) == size >= MaxFileSize

IsOversize(size) == size > MaxFileSize

\* str.strip() on the translations of the model
Strip(s) == IF s = " " THEN "" ELSE s

Placeholder == "[attachment]"
Prefix == "[Discord]"
Author == "alice"
Marker == "translation:"

\* outcomes of Translator.translate_text for the content "hi" / placeholder:
\* it raises, returns the content, a translation, white space, or the value
\* that is no str which the service took from the body of its answer
TranslateOutcomes == {"raise", "same", "salut", " ", "notAString"}

\* content after the empty-with-attachments substitution (lines 89-96)
OutboundContent(m) ==
    IF m.content = "" /\ m.attachments # 0 THEN Placeholder ELSE m.content

\* _build_forward_message, given the outcome tr of translate_text
\* ("skip" when the translator is not called)
_build_forward_message(m, tr) ==
    LET content == OutboundContent(m)
        translated ==
            IF tr \in {"skip", "raise", "same"} THEN None ELSE tr
    IN  IF content = "" THEN <<>>
        ELSE IF translated # None
             THEN IF Strip(translated) # ""
                  THEN <<Prefix, Author, content, Marker, Strip(translated)>>
                  ELSE <<Prefix, Author, content, "">>
             ELSE <<Prefix, Author, content>>

(***************************************************************************)
(* Records of the relay                                                    *)
(***************************************************************************)
NoCall == [purpose |-> "none", ret |-> "none", attempt |-> 0, attempts |-> 0,
           ok |-> FALSE, waited |-> 0, sleeps |-> 0]

NewCall(purpose, ret) == [NoCall EXCEPT !.purpose = purpose, !.ret = ret]

NoAttachment == [ext |-> "none", size |-> 0, file_path |-> FALSE,
                 native_file |-> FALSE,
                 asset_upload |-> FALSE, url |-> FALSE, card |-> "none",
                 fallback_attempts |-> 0, notice |-> FALSE, delivered |-> FALSE]

NativeOutcomes == {"ok", "none", "fetchRaise", "sendRaise"}
HttpOutcomes == {"status200", "non200", "exception"}
UploadOutcomes == {"url", "noUrl", "non200", "exception"}
CardOutcomes == {"ok", "codeNonZero", "non200", "exception"}

(***************************************************************************)
(* translator.py: Translator                                               *)
(***************************************************************************)
MaxLines == 5

\* the line that opens or closes a code block (three backquotes)
Fence == "~~~"

\* the lines a text is made of: an empty line, a line of prose, a line that
\* holds the whitelisted word, a fence, a line of code
Lines == {"", "hi", "kook", Fence, "x"}
Texts == UNION {[1..n -> Lines] : n \in 1..MaxLines}
Whitelists == {{}, {"kook"}}

\* a Python str is the sequence of its words and line breaks
NL == "\n"
Word(line) == IF line = "" THEN <<>> ELSE <<line>>

\* '\n'.join(lines), the inverse of text.split('\n') (line 414)
RECURSIVE Join(_)
Join(lines) ==
    IF Len(lines) = 1 THEN Word(lines[1])
    ELSE Word(Head(lines)) \o <<NL>> \o Join(Tail(lines))

\* not s.strip(): nothing but white space
IsBlank(s) == \A i \in DOMAIN s : s[i] = NL

\* item in s
Contains(s, item) == \E i \in DOMAIN s : s[i] = item

\* is_enabled (lines 382-388)
is_enabled(on, svc) == on /\ svc # None

\* _contains_code_block (lines 390-400)
_contains_code_block(s) == Contains(s, Fence)

_should_skip_translation_never(wl, s) == FALSE

\* _should_skip_translation (lines 447-462)
_should_skip_translation(wl, s) == \E item \in wl : Contains(s, item)

\* the test of line 419 on the lines of the model
IsFence(line) == line = Fence

Part(is_in_code_block, content) ==
    [type |-> IF is_in_code_block THEN "code" ELSE "text", content |-> content]

\* the loop of _split_text_and_code_blocks (lines 416-443) over the lines
\* left, with the parts made, the flag and the part being filled
RECURSIVE SplitFrom(_, _, _, _)
SplitFrom(lines, parts_made, is_in_code_block, current_part) ==
    IF lines = <<>>
    THEN IF current_part # <<>>
         THEN Append(parts_made, Part(is_in_code_block, current_part))
         ELSE parts_made
    ELSE LET line == Head(lines)
         IN  IF IsFence(line)
             THEN SplitFrom(Tail(lines),
                            IF current_part # <<>>
                            THEN Append(parts_made,
                                        Part(is_in_code_block, current_part))
                            ELSE parts_made,
                            ~is_in_code_block,
                            Word(line) \o <<NL>>)
             ELSE SplitFrom(Tail(lines), parts_made, is_in_code_block,
                            current_part \o Word(line) \o <<NL>>)

\* _split_text_and_code_blocks (lines 402-445)
_split_text_and_code_blocks(lines) == SplitFrom(lines, <<>>, FALSE, <<>>)

\* a value translate_text handles: a str made of pieces, each the characters
\* of the input as they were ("raw") or the translation of a stretch of
\* them ("tr"); or something that is no str
Raw(s) == IF s = <<>> THEN <<>> ELSE <<[t |-> "raw", s |-> s]>>
Translated(s) == <<[t |-> "tr", s |-> s]>>
Str(pieces) == [kind |-> "str", v |-> pieces]
NotAStr == [kind |-> "other", v |-> <<>>]
Pending == [kind |-> "pending", v |-> <<>>]

\* result += piece: two stretches of untouched characters make one
Cat(a, b) ==
    IF a # <<>> /\ b # <<>> /\ a[Len(a)].t = "raw" /\ b[1].t = "raw"
    THEN SubSeq(a, 1, Len(a) - 1)
            \o <<[t |-> "raw", s |-> a[Len(a)].s \o b[1].s]>>
            \o Tail(b)
    ELSE a \o b

\* what service.translate(text) gives (lines 37-62, 138-172, 187-245,
\* 260-323): the translation; the text itself, when the request failed, the
\* status was not 200 or the body had no translation; or the value of the
\* body's translation field when that is not a string
ProviderOutcomes == {"ok", "failed", "notAString"}
translate(s, outcome) ==
    CASE outcome = "ok" -> Str(Translated(s))
      [] outcome = "failed" -> Str(Raw(s))
      [] OTHER -> NotAStr

\* no text is being translated
TranslateIdle ==
    /\ enabled = FALSE
    /\ service = None
    /\ whitelist = {}
    /\ text = <<"">>
    /\ tpc = "idle"
    /\ parts = <<>>
    /\ part_i = 0
    /\ tr_result = <<>>
    /\ provider_calls = <<>>
    /\ tr_return = Pending

(***************************************************************************)
(* The recurring tasks: each is a coroutine of the form                    *)
(*     while True: try: <body> except Exception: <log>; sleep(<backoff>)   *)
(***************************************************************************)
Loops == {"_run_periodic_cleanup", "start_cleanup_task", "run_price_check"}

\* first statement of the body of the while loop: _run_periodic_cleanup
\* (message_forwarder.py line 584) and run_price_check (discord_bot.py line
\* 76) sleep before they work, start_cleanup_task (cleanup.py line 39) works
\* before it sleeps
Top(l) == IF l = "start_cleanup_task" THEN "tick" ELSE "sleep"

\* how the work of one tick can end.  _cleanup_old_files catches every
\* Exception itself (message_forwarder.py lines 593-613); cleanup_old_files
\* reads the file system outside any try (cleanup.py lines 55-65);
\* run_price_check calls SteamMonitor.check_price_changes, which the class
\* does not define (discord_bot.py line 78)
TickOutcomes(l) ==
    CASE l = "_run_periodic_cleanup" -> {"ok"}
      [] l = "start_cleanup_task" -> {"ok", "raised"}
      [] l = "run_price_check" -> {"raised"}

\* a loop whose handler lets the exception of a tick out of the coroutine
AfterTick_propagates(outcome) ==
    IF outcome = "raised" THEN "ended" ELSE "sleep"

\* where the loop is after the work of a tick: in the handler of
\* except Exception, about to wait, or at the sleep that follows the work
AfterTick(outcome) ==
    IF outcome = "raised" THEN "backoff" ELSE "sleep"

\* the coroutines exist and none has taken a step
LoopsCreated ==
    loops = [l \in Loops |-> [pc |-> Top(l), last |-> "none"]]

\* create_discord_bot (discord_bot.py lines 15-23) and create_kook_bot
\* (kook.py lines 15-24) each make a SteamMonitor
Bots == {"discord", "kook"}

\* no bot has loaded a watch-list
BotsIdle == steam_monitors = [b \in Bots |-> <<>>]

(***************************************************************************)
(* The download directory: downloads/images, downloads/videos and the      *)
(* files of downloads itself                                               *)
(***************************************************************************)
\* the files a pass meets: two images, a video, a file of the root folder
Files == {"a.png", "b.png", "v.mp4", "r.bin"}
\* the directories a pass meets: one inside images, and images itself, which
\* is an entry of the root folder
Dirs == {"thumbs", "images"}

Folder(n) ==
    CASE n \in {"a.png", "b.png", "thumbs"} -> "images"
      [] n = "v.mp4" -> "videos"
      [] OTHER -> "root"

\* an entry that is not there
Absent == [present |-> FALSE, age |-> 0, by |-> None]

NoSweep == [impl |-> None, pc |-> "idle", dirs |-> <<>>, listing |-> <<>>,
            item |-> None, seen |-> {}, caught |-> {}, error |-> None]

NoTtl == [file_path |-> None, pc |-> "done", failed |-> FALSE]

SweepIdle ==
    /\ disk = [n \in Files \cup Dirs |-> Absent]
    /\ sweep = NoSweep
    /\ ttl = NoTtl

\* the price watch has not started while the relay is examined
WatchIdle ==
    /\ data_initialized = FALSE
    /\ app_dict_all = <<>>
    /\ app_dict_all_reverse = <<>>
    /\ game_list = [kind |-> "json", store |-> <<>>]
    /\ refresh = [n |-> 0, ok |-> FALSE]
    /\ monitor_list = <<>>
    /\ file = [kind |-> "json", store |-> <<>>]
    /\ lock = [holder |-> 0, waiters |-> <<>>]
    /\ tasks = <<>>
    /\ running = 0
    /\ ops_started = 0
    /\ errors = {}
    /\ last = [op |-> "none"]

RelayInit ==
    /\ config \in {ForwardConfig(s, b) : s \in RuleStrings, b \in BOOLEAN}
    /\ translator_enabled \in BOOLEAN
    /\ msg \in [bot : BOOLEAN, channel : DiscordChannels, content : Contents,
                attachments : 0..MaxAttachments]
    /\ fpc = "start"
    /\ kook_channel_id = None
    /\ forwarded_content = <<>>
    /\ translated_content = None
    /\ success = FALSE
    /\ result = FALSE
    /\ att_i = 0
    /\ stm = NoCall
    /\ cur = NoAttachment
    /\ effects = {}
    /\ text_delivered = FALSE
    /\ att_results = <<>>
    /\ WatchIdle
    /\ TranslateIdle
    /\ LoopsCreated
    /\ BotsIdle
    /\ SweepIdle

(***************************************************************************)
(* forward_message (lines 28-77)                                           *)
(***************************************************************************)
Return(v) ==
    /\ result' = v
    /\ fpc' = "done"

\* lines 37-45: policy check and destination lookup
ForwardMessage ==
    /\ fpc = "start"
    /\ IF ~should_forward_message(config, msg.bot)
       THEN Return(FALSE) /\ UNCHANGED kook_channel_id
       ELSE LET id == get_kook_channel_id(config, msg.channel)
            IN  IF ~Truthy(id)
                THEN Return(FALSE) /\ UNCHANGED kook_channel_id
                ELSE /\ kook_channel_id' = id
                     /\ fpc' = "build"
                     /\ UNCHANGED result
    /\ UNCHANGED <<config, translator_enabled, translated_content, msg, forwarded_content, success,
                   att_i, stm, cur, effects, text_delivered, att_results>>
    /\ UNCHANGED watchVars
    /\ UNCHANGED translateVars
    /\ UNCHANGED loopVars
    /\ UNCHANGED botsVars
    /\ UNCHANGED sweepVars

\* line 50 and _build_forward_message (lines 79-133); a translation that is
\* no str passes the test of line 106, translated_content.strip() (line 122)
\* raises outside the try of lines 101-112 and the handler of forward_message
\* (lines 75-77) returns False
BuildForwardMessage ==
    /\ fpc = "build"
    /\ \E tr \in (IF OutboundContent(msg) # "" /\ translator_enabled
                  THEN TranslateOutcomes ELSE {"skip"}) :
          /\ effects' = effects \cup (IF tr = "skip" THEN {} ELSE {"translate"})
          /\ translated_content' = (IF tr \in {"skip", "raise"} THEN None ELSE tr)
          /\ IF tr = "notAString"
             THEN /\ Return(FALSE)
                  /\ UNCHANGED forwarded_content
             ELSE /\ forwarded_content' = _build_forward_message(msg, tr)
                  /\ fpc' = "text"
                  /\ UNCHANGED result
    /\ UNCHANGED <<config, translator_enabled, msg, kook_channel_id, success,
                   att_i, stm, cur, text_delivered, att_results>>
    /\ UNCHANGED watchVars
    /\ UNCHANGED translateVars
    /\ UNCHANGED loopVars
    /\ UNCHANGED botsVars
    /\ UNCHANGED sweepVars

\* value of success after the fallback call returned (line 66)
SuccessAfterFallback(call) == TRUE

\* value of success once the attachments were handed over (line 71)
SuccessAfterAttachments(prev, results) == TRUE

\* what a call made for the text of the message adds to effects: a send
\* attempt, unless fetch_public_channel raised or returned no channel, after
\* which channel.send is not called (lines 56-58, 145-147); every HTTP
\* message-create attempt counts (line 178)
TextSendAttempt(purpose, o) ==
    IF purpose = "text" /\ o \notin {"none", "fetchRaise"}
    THEN {"text_send"} ELSE {}

\* lines 52-63: native send of the text
SendText ==
    /\ fpc = "text"
    /\ IF forwarded_content = <<>>
       THEN /\ fpc' = "attachments"
            /\ UNCHANGED <<success, stm, effects, text_delivered>>
       ELSE \E o \in NativeOutcomes :
              /\ effects' = effects \cup {"send"} \cup TextSendAttempt("text", o)
              /\ CASE o = "ok" ->
                        /\ success' = TRUE
                        /\ text_delivered' = TRUE
                        /\ fpc' = "attachments"
                        /\ UNCHANGED stm
                   [] o = "none" ->
                        /\ fpc' = "attachments"
                        /\ UNCHANGED <<success, stm, text_delivered>>
                   [] OTHER ->
                        /\ stm' = NewCall("text", "text_ret")
                        /\ fpc' = "stm_native"
                        /\ UNCHANGED <<success, text_delivered>>
    /\ UNCHANGED <<config, translator_enabled, translated_content, msg, kook_channel_id,
                   forwarded_content, result, att_i, cur, att_results>>
    /\ UNCHANGED watchVars
    /\ UNCHANGED translateVars
    /\ UNCHANGED loopVars
    /\ UNCHANGED botsVars
    /\ UNCHANGED sweepVars

\* lines 65-66: back from the fallback _send_text_message
TextFallbackReturn ==
    /\ fpc = "text_ret"
    /\ success' = SuccessAfterFallback(stm)
    /\ stm' = NoCall
    /\ fpc' = "attachments"
    /\ UNCHANGED <<config, translator_enabled, translated_content, msg, kook_channel_id,
                   forwarded_content, result, att_i, cur, effects,
                   text_delivered, att_results>>
    /\ UNCHANGED watchVars
    /\ UNCHANGED translateVars
    /\ UNCHANGED loopVars
    /\ UNCHANGED botsVars
    /\ UNCHANGED sweepVars

\* lines 69-73 when the message has no attachment
ReturnSuccess ==
    /\ fpc = "attachments"
    /\ msg.attachments = 0
    /\ Return(success)
    /\ UNCHANGED <<config, translator_enabled, translated_content, msg, kook_channel_id,
                   forwarded_content, success, att_i, stm, cur, effects,
                   text_delivered, att_results>>
    /\ UNCHANGED watchVars
    /\ UNCHANGED translateVars
    /\ UNCHANGED loopVars
    /\ UNCHANGED botsVars
    /\ UNCHANGED sweepVars

\* lines 69-70: enter _forward_attachments
ForwardAttachments ==
    /\ fpc = "attachments"
    /\ msg.attachments # 0
    /\ att_i' = 1
    /\ fpc' = "att_loop"
    /\ UNCHANGED <<config, translator_enabled, translated_content, msg, kook_channel_id,
                   forwarded_content, success, result, stm, cur, effects,
                   text_delivered, att_results>>
    /\ UNCHANGED watchVars
    /\ UNCHANGED translateVars
    /\ UNCHANGED loopVars
    /\ UNCHANGED botsVars
    /\ UNCHANGED sweepVars

(***************************************************************************)
(* _send_text_message (lines 135-196)                                      *)
(***************************************************************************)
CountFallback(c, call) ==
    IF call.purpose = "card_fallback"
    THEN [c EXCEPT !.fallback_attempts = @ + 1] ELSE c

\* lines 142-151: native attempt
StmNative ==
    /\ fpc = "stm_native"
    /\ \E o \in NativeOutcomes :
          /\ effects' = effects \cup {"send"} \cup TextSendAttempt(stm.purpose, o)
          /\ cur' = CountFallback(cur, stm)
          /\ IF o = "ok"
             THEN /\ stm' = [stm EXCEPT !.ok = TRUE]
                  /\ fpc' = "stm_ret"
             ELSE /\ fpc' = "stm_http"
                  /\ UNCHANGED stm
    /\ UNCHANGED <<config, translator_enabled, translated_content, msg, kook_channel_id,
                   forwarded_content, success, result, att_i, text_delivered,
                   att_results>>
    /\ UNCHANGED watchVars
    /\ UNCHANGED translateVars
    /\ UNCHANGED loopVars
    /\ UNCHANGED botsVars
    /\ UNCHANGED sweepVars

\* line 176: for attempt in range(max_retries)
InRange_one(attempt) == attempt < 1

InRange(attempt) == attempt < max_retries

MoreAttempts_always(attempt) == TRUE

\* lines 187 and 191: sleep only when another attempt follows
MoreAttempts(attempt) == attempt < max_retries - 1

\* line 181: an attempt whose response has status 200 ends the call
EndsCall_never(o) == FALSE

EndsCall(o) == o = "status200"

\* lines 176-192: one attempt of the HTTP message-create call.  "exception"
\* covers a failure of session.post and of response.json(): no status is
\* examined then
StmHttp ==
    /\ fpc = "stm_http"
    /\ InRange(stm.attempt)
    /\ \E o \in HttpOutcomes :
          /\ effects' = effects \cup {"send"} \cup TextSendAttempt(stm.purpose, o)
          /\ cur' = CountFallback(cur, stm)
          /\ stm' = [stm EXCEPT !.attempts = @ + 1, !.waited = 0,
                                !.ok = (o = "status200"),
                                !.attempt = IF EndsCall(o) \/ MoreAttempts(stm.attempt)
                                            THEN @ ELSE @ + 1]
          /\ fpc' = IF EndsCall(o) THEN "stm_ret"
                    ELSE IF MoreAttempts(stm.attempt) THEN "stm_sleep"
                    ELSE "stm_http"
    /\ UNCHANGED <<config, translator_enabled, translated_content, msg, kook_channel_id,
                   forwarded_content, success, result, att_i, text_delivered,
                   att_results>>
    /\ UNCHANGED watchVars
    /\ UNCHANGED translateVars
    /\ UNCHANGED loopVars
    /\ UNCHANGED botsVars
    /\ UNCHANGED sweepVars

\* line 194: the loop is exhausted, the call logs the failure and returns
StmExhausted ==
    /\ fpc = "stm_http"
    /\ ~InRange(stm.attempt)
    /\ fpc' = "stm_ret"
    /\ UNCHANGED <<config, translator_enabled, translated_content, msg, kook_channel_id,
                   forwarded_content, success, result, att_i, stm, cur, effects,
                   text_delivered, att_results>>
    /\ UNCHANGED watchVars
    /\ UNCHANGED translateVars
    /\ UNCHANGED loopVars
    /\ UNCHANGED botsVars
    /\ UNCHANGED sweepVars

\* lines 188 and 192: asyncio.sleep(1), then the next iteration of the loop
StmSleep ==
    /\ fpc = "stm_sleep"
    /\ stm' = [stm EXCEPT !.waited = @ + RetryDelay, !.sleeps = @ + 1,
                          !.attempt = @ + 1]
    /\ fpc' = "stm_http"
    /\ UNCHANGED <<config, translator_enabled, translated_content, msg, kook_channel_id,
                   forwarded_content, success, result, att_i, cur, effects,
                   text_delivered, att_results>>
    /\ UNCHANGED watchVars
    /\ UNCHANGED translateVars
    /\ UNCHANGED loopVars
    /\ UNCHANGED botsVars
    /\ UNCHANGED sweepVars

\* return of _send_text_message to its caller (lines 149, 184, 194)
StmReturn ==
    /\ fpc = "stm_ret"
    /\ fpc' = stm.ret
    /\ text_delivered' = (text_delivered \/ (stm.purpose = "text" /\ stm.ok))
    /\ cur' = IF stm.purpose \in {"file_link", "card_fallback"} /\ stm.ok
              THEN [cur EXCEPT !.delivered = TRUE] ELSE cur
    /\ stm' = [NoCall EXCEPT !.ok = stm.ok]
    /\ UNCHANGED <<config, translator_enabled, translated_content, msg, kook_channel_id,
                   forwarded_content, success, result, att_i, effects,
                   att_results>>
    /\ UNCHANGED watchVars
    /\ UNCHANGED translateVars
    /\ UNCHANGED loopVars
    /\ UNCHANGED botsVars
    /\ UNCHANGED sweepVars


(***************************************************************************)
(* _forward_attachments (lines 198-217), _download_attachment (219-264)    *)
(***************************************************************************)
\* what _forward_attachments does with the result of the download (line 209)
ProcessDownloaded_always(file_path) == TRUE

ProcessDownloaded(file_path) == file_path.exists

\* results of _download_attachment: a local file of some size, or None
Downloads == {[exists |-> TRUE, size |-> n] : n \in FileSizes}
                 \cup {[exists |-> FALSE, size |-> 0]}

NextAttachment_abortOnFailure(i, outcome) ==
    IF outcome = "forwarded" THEN i + 1 ELSE msg.attachments + 1

\* lines 205-217: whatever happened to attachment i, the loop goes on with the
\* next one
NextAttachment(i, outcome) == i + 1

\* lines 205-209: download of attachment att_i; the downloaded file has the
\* size the environment gives it; cur.file_path tells that file_path is a
\* Path and not None
DownloadAttachment ==
    /\ fpc = "att_loop"
    /\ att_i <= msg.attachments
    /\ \E ext \in Extensions, file_path \in Downloads :
          /\ effects' = effects \cup {"download"}
          /\ IF ProcessDownloaded(file_path)
             THEN /\ cur' = [NoAttachment EXCEPT !.ext = ext,
                                                 !.size = file_path.size,
                                                 !.file_path = file_path.exists]
                  /\ fpc' = "sf_native"
                  /\ UNCHANGED <<att_i, att_results>>
             ELSE /\ cur' = NoAttachment
                  /\ att_results' = Append(att_results, "download_failed")
                  /\ att_i' = NextAttachment(att_i, "download_failed")
                  /\ UNCHANGED fpc
    /\ UNCHANGED <<config, translator_enabled, translated_content, msg, kook_channel_id,
                   forwarded_content, success, result, stm, text_delivered>>
    /\ UNCHANGED watchVars
    /\ UNCHANGED translateVars
    /\ UNCHANGED loopVars
    /\ UNCHANGED botsVars
    /\ UNCHANGED sweepVars

\* end of the loop, then lines 71-73 of forward_message
AttachmentsDone ==
    /\ fpc = "att_loop"
    /\ att_i > msg.attachments
    /\ success' = SuccessAfterAttachments(success, att_results)
    /\ Return(SuccessAfterAttachments(success, att_results))
    /\ UNCHANGED <<config, translator_enabled, translated_content, msg, kook_channel_id,
                   forwarded_content, att_i, stm, cur, effects, text_delivered,
                   att_results>>
    /\ UNCHANGED watchVars
    /\ UNCHANGED translateVars
    /\ UNCHANGED loopVars
    /\ UNCHANGED botsVars
    /\ UNCHANGED sweepVars

(***************************************************************************)
(* _send_file_to_kook (lines 266-371)                                      *)
(***************************************************************************)
\* lines 276-284: channel.send(file=f) through the KOOK client
SendFileNative ==
    /\ fpc = "sf_native"
    /\ \E o \in NativeOutcomes :
          /\ effects' = effects \cup {"send"}
          /\ CASE o = "ok" ->
                    /\ cur' = [cur EXCEPT !.native_file = TRUE, !.delivered = TRUE]
                    /\ fpc' = "att_cleanup"
               [] o = "sendRaise" ->
                    /\ cur' = [cur EXCEPT !.native_file = TRUE]
                    /\ fpc' = "sf_check"
               [] OTHER ->
                    /\ fpc' = "sf_check"
                    /\ UNCHANGED cur
    /\ UNCHANGED <<config, translator_enabled, translated_content, msg, kook_channel_id,
                   forwarded_content, success, result, att_i, stm,
                   text_delivered, att_results>>
    /\ UNCHANGED watchVars
    /\ UNCHANGED translateVars
    /\ UNCHANGED loopVars
    /\ UNCHANGED botsVars
    /\ UNCHANGED sweepVars

\* lines 293-317: extension and size checks, each sending a text-only notice
SendFileCheck ==
    /\ fpc = "sf_check"
    /\ IF IsUnsupported(cur.ext)
       THEN /\ stm' = NewCall("notice_unsupported", "att_cleanup")
            /\ cur' = [cur EXCEPT !.notice = TRUE]
            /\ fpc' = "stm_native"
       ELSE IF IsOversize(cur.size)
            THEN /\ stm' = NewCall("notice_oversize", "att_cleanup")
                 /\ cur' = [cur EXCEPT !.notice = TRUE]
                 /\ fpc' = "stm_native"
            ELSE /\ fpc' = "sf_upload"
                 /\ UNCHANGED <<stm, cur>>
    /\ UNCHANGED <<config, translator_enabled, translated_content, msg, kook_channel_id,
                   forwarded_content, success, result, att_i, effects,
                   text_delivered, att_results>>
    /\ UNCHANGED watchVars
    /\ UNCHANGED translateVars
    /\ UNCHANGED loopVars
    /\ UNCHANGED botsVars
    /\ UNCHANGED sweepVars

\* lines 336-371: multipart upload to /asset/create and dispatch on the result
SendFileUpload ==
    /\ fpc = "sf_upload"
    /\ \E o \in UploadOutcomes :
          /\ effects' = effects \cup {"upload"}
          /\ IF o = "url"
             THEN /\ cur' = [cur EXCEPT !.asset_upload = TRUE, !.url = TRUE]
                  /\ IF _is_image_file(cur.ext)
                     THEN fpc' = "image_card" /\ UNCHANGED stm
                     ELSE IF _is_video_file(cur.ext)
                          THEN fpc' = "video_card" /\ UNCHANGED stm
                          ELSE /\ stm' = NewCall("file_link", "att_cleanup")
                               /\ fpc' = "stm_native"
             ELSE /\ cur' = [cur EXCEPT !.asset_upload = TRUE]
                  /\ stm' = NewCall("upload_failed", "att_cleanup")
                  /\ fpc' = "stm_native"
    /\ UNCHANGED <<config, translator_enabled, translated_content, msg, kook_channel_id,
                   forwarded_content, success, result, att_i, text_delivered,
                   att_results>>
    /\ UNCHANGED watchVars
    /\ UNCHANGED translateVars
    /\ UNCHANGED loopVars
    /\ UNCHANGED botsVars
    /\ UNCHANGED sweepVars

\* the card send failed: non-200, non-zero code, or exception
CardFailed_onlyHttp(o) == o = "non200"

CardFailed(o) == o # "ok"

SendCard(at) ==
    /\ fpc = at
    /\ \E o \in CardOutcomes :
          /\ effects' = effects \cup {"send"}
          /\ IF CardFailed(o)
             THEN /\ cur' = [cur EXCEPT !.card = "failed"]
                  /\ stm' = NewCall("card_fallback", "att_cleanup")
                  /\ fpc' = "stm_native"
             ELSE /\ cur' = [cur EXCEPT !.card = o,
                                        !.delivered = @ \/ (o = "ok")]
                  /\ fpc' = "att_cleanup"
                  /\ UNCHANGED stm
    /\ UNCHANGED <<config, translator_enabled, translated_content, msg, kook_channel_id,
                   forwarded_content, success, result, att_i, text_delivered,
                   att_results>>
    /\ UNCHANGED watchVars
    /\ UNCHANGED translateVars
    /\ UNCHANGED loopVars
    /\ UNCHANGED botsVars
    /\ UNCHANGED sweepVars

\* _send_image_card (lines 383-460)
SendImageCard == SendCard("image_card")

\* _send_video_card (lines 462-535)
SendVideoCard == SendCard("video_card")

\* _schedule_file_cleanup (lines 537-557), then the next attachment
ScheduleFileCleanup ==
    /\ fpc = "att_cleanup"
    /\ effects' = effects \cup {"cleanup"}
    /\ att_results' = Append(att_results,
                             IF cur.delivered THEN "forwarded" ELSE "failed")
    /\ att_i' = NextAttachment(att_i, IF cur.delivered THEN "forwarded" ELSE "failed")
    /\ fpc' = "att_loop"
    /\ cur' = NoAttachment
    /\ stm' = NoCall
    /\ UNCHANGED <<config, translator_enabled, translated_content, msg, kook_channel_id,
                   forwarded_content, success, result, text_delivered>>
    /\ UNCHANGED watchVars
    /\ UNCHANGED translateVars
    /\ UNCHANGED loopVars
    /\ UNCHANGED botsVars
    /\ UNCHANGED sweepVars

RelayNext ==
    \/ ForwardMessage
    \/ BuildForwardMessage
    \/ SendText
    \/ TextFallbackReturn
    \/ ReturnSuccess
    \/ ForwardAttachments
    \/ StmNative
    \/ StmHttp
    \/ StmSleep
    \/ StmExhausted
    \/ StmReturn
    \/ DownloadAttachment
    \/ AttachmentsDone
    \/ SendFileNative
    \/ SendFileCheck
    \/ SendFileUpload
    \/ SendImageCard
    \/ SendVideoCard
    \/ ScheduleFileCleanup

RelaySpec == RelayInit /\ [][RelayNext]_vars


(***************************************************************************)
(* steam_monitor.py: data                                                  *)
(*                                                                         *)
(* Strings that the code splits or joins are sequences of tokens.  A dict  *)
(* is the sequence of its entry slots in insertion order; deleting an      *)
(* entry while a price pass iterates leaves its slot in place, marked      *)
(* dead, as CPython does, so an iterator's position and the objects the    *)
(* pass still references keep their meaning.  Dead slots are dropped once  *)
(* no pass is running.  The dicts of the model stay below the size at      *)
(* which CPython rebuilds the slot table on insertion.                     *)
(***************************************************************************)
MaxOps == 3

Tasks == 1..MaxOps

Users == {<<"u1">>}
Channels == {<<"c1">>, <<"c2">>}
default_user_id == <<"default">>

\* f"{user_id}_{channel_id}" (lines 397, 428, 493)
Key(user_id, channel_id) == user_id \o <<"_">> \o channel_id

\* str.split("_")
RECURSIVE Split(_)
Split(str) ==
    IF str = <<>> THEN << <<>> >>
    ELSE LET rest == Split(Tail(str))
         IN  IF Head(str) = "_"
             THEN << <<>> >> \o rest
             ELSE << <<Head(str)>> \o rest[1] >> \o Tail(rest)

\* a Steam id as Python holds it: the number n as an int, or as the str of
\* its digits; the two are different keys of a dict and compare unequal
PyInt(n) == [t |-> "int", v |-> n]
PyStr(n) == [t |-> "str", v |-> n]

\* the Steam catalog returned by GetAppList: appid is a JSON number
Catalog == << [name |-> "Portal", appid |-> PyInt(400)],
             [name |-> "Limbo", appid |-> PyInt(500)] >>

\* what a user may type as a game name
NameInputs == {"Portal", "Limbo", "Zzz"}

\* rapidfuzz's fuzz.ratio, 200 * LCS(a, b) / (len(a) + len(b)), on two
\* different names of the model, cut to its integer part; no value of the
\* table lies strictly between 69 and 70 or between 80 and 81, so the tests
\* against 70 and 80 come out as they do on the exact score
ratio(a, b) ==
    CASE {a, b} = {"Portal", "Limbo"} -> 18
      [] {a, b} = {"Portal", "Subnautica"} -> 25
      [] {a, b} = {"Portal 2", "Limbo"} -> 15
      [] {a, b} = {"Portal 2", "Subnautica"} -> 22
      [] {a, b} = {"Limbo", "Subnautica"} -> 13
      [] {a, b} = {"Subnautxyz", "Subnautica"} -> 70
      [] {a, b} = {"Subnautixx", "Subnautica"} -> 80
      [] {a, b} = {"Subnauwxyz", "Subnautica"} -> 60
      [] a \in {"Subnautxyz", "Subnautixx", "Subnauwxyz"} /\ b = "Portal" -> 12
      [] a \in {"Subnautxyz", "Subnautixx", "Subnauwxyz"} /\ b = "Limbo" -> 13
      [] a \in {"Subnautxyz", "Subnautixx", "Subnauwxyz"} /\ b = "Portal 2" -> 11
      [] OTHER -> 0

\* fuzz.token_set_ratio on the names of the model: 100 as soon as the words
\* of one name are all words of the other, fuzz.ratio for names of one word
\* that differ
token_set_ratio(a, b) ==
    IF a = b THEN 100
    ELSE IF {a, b} = {"Portal", "Portal 2"} THEN 100
    ELSE ratio(a, b)

\* fuzz.token_sort_ratio on the names of the model: fuzz.ratio of the names
\* with their words sorted ("Portal" against "2 Portal" gives 85.7)
token_sort_ratio(a, b) ==
    IF a = b THEN 100
    ELSE IF {a, b} = {"Portal", "Portal 2"} THEN 85
    ELSE ratio(a, b)

\* str(appid) and int(appid) of an id held either way
ToStr(x) == PyStr(x.v)
ToInt(x) == PyInt(x.v)

\* results of get_steam_price: None, or price and discount (lines 313-359)
NoPrice == [ok |-> FALSE, current_price |-> 0, discount |-> 0]
PriceInfos == { [ok |-> TRUE, current_price |-> 100, discount |-> 0],
                [ok |-> TRUE, current_price |-> 80, discount |-> 20] }

\* ---- dict slots ----
Live(d) == {i \in DOMAIN d : d[i].live}
Used(d) == Cardinality(Live(d))

\* index of the live slot of key k, 0 when k is not in the dict
Find(d, k) ==
    IF \E i \in Live(d) : d[i].k = k
    THEN CHOOSE i \in Live(d) : d[i].k = k
    ELSE 0

\* first live slot at or after position pos, 0 when the iteration is over
NextLive(d, pos) ==
    IF \E i \in Live(d) : i >= pos
    THEN CHOOSE i \in Live(d) : i >= pos /\ \A j \in Live(d) : j >= pos => i <= j
    ELSE 0

RemoveAt(d, i) == [j \in 1..(Len(d) - 1) |-> IF j < i THEN d[j] ELSE d[j + 1]]

RECURSIVE DropDead(_)
DropDead(d) ==
    IF d = <<>> THEN <<>>
    ELSE IF Head(d).live THEN <<Head(d)>> \o DropDead(Tail(d))
    ELSE DropDead(Tail(d))

\* the store without its dead slots, at both levels
Compact(ml) ==
    LET live == DropDead(ml)
    IN  [i \in DOMAIN live |->
            IF live[i].kind = "dict"
            THEN [live[i] EXCEPT !.items = DropDead(@)]
            ELSE live[i]]

\* json.dump(self.monitor_list, f): what the file holds after a write
Serialize(ml) == [kind |-> "json", store |-> Compact(ml)]

Truncated == [kind |-> "truncated", store |-> <<>>]
Corrupt == [kind |-> "corrupt", store |-> <<>>]

MonitorInfo_otherId(appid, name, price_info) ==
    [k |-> PyStr(0), live |-> TRUE, appid |-> PyInt(0), name |-> name,
     last_price |-> price_info.current_price,
     last_discount |-> price_info.discount]

\* a watch-list entry written by add_monitor (lines 387-394)
MonitorInfo(appid, name, price_info) ==
    [k |-> ToStr(appid), live |-> TRUE, appid |-> appid, name |-> name,
     last_price |-> price_info.current_price,
     last_discount |-> price_info.discount]

\* a watch-list entry written by add_game (lines 145-150)
GameInfo(game_id, name) ==
    [id |-> game_id, name |-> name, price |-> None]

NewKey(key, kind) == [k |-> key, live |-> TRUE, kind |-> kind, items |-> <<>>]


(***************************************************************************)
(* steam_monitor.py: name resolution                                       *)
(***************************************************************************)
NoMatch == [ok |-> FALSE, appid |-> PyInt(0), name |-> ""]

\* process.extractOne / process.extract(limit=1): the first choice with the
\* best score, 0 when there is no choice
BestIndex(scores) ==
    IF scores = <<>> THEN 0
    ELSE CHOOSE i \in DOMAIN scores :
            /\ \A j \in DOMAIN scores : scores[j] <= scores[i]
            /\ \A j \in 1..(i - 1) : scores[j] < scores[i]

\* get_appid_by_name (lines 288-311), once data_initialized is set
get_appid_by_name(dict, user_input) ==
    LET i == BestIndex([k \in DOMAIN dict |->
                           token_set_ratio(user_input, dict[k].name)])
    IN  IF i # 0 /\ token_set_ratio(user_input, dict[i].name) >= 70
        THEN [ok |-> TRUE, appid |-> dict[i].appid, name |-> dict[i].name]
        ELSE NoMatch

\* name lookup of add_game and remove_game (lines 119-129, 178-188)
LookupGame(dict, game_input) ==
    IF \E i \in DOMAIN dict : dict[i].name = game_input
    THEN LET i == CHOOSE i \in DOMAIN dict : dict[i].name = game_input
         IN  [ok |-> TRUE, appid |-> dict[i].appid, name |-> dict[i].name]
    ELSE LET i == BestIndex([k \in DOMAIN dict |->
                                token_sort_ratio(game_input, dict[k].name)])
         IN  IF i # 0 /\ token_sort_ratio(game_input, dict[i].name) > 80
             THEN [ok |-> TRUE, appid |-> dict[i].appid, name |-> dict[i].name]
             ELSE NoMatch

\* self.app_dict_all_reverse.get(int(appid), appid) (line 447)
ReverseName(rev, appid) ==
    IF \E i \in DOMAIN rev : rev[i].appid = ToInt(appid)
    THEN rev[CHOOSE i \in DOMAIN rev : rev[i].appid = ToInt(appid)].name
    ELSE "id"

\* remove_monitor's resolution of game_name to a key of the user's list
\* (lines 442-461)
ResolveForRemove(dict, rev, games, game_name) ==
    LET match_result == get_appid_by_name(dict, game_name)
        live == DropDead(games)
        user_games == [i \in DOMAIN live |-> ReverseName(rev, live[i].k)]
        j == BestIndex([k \in DOMAIN user_games |->
                           token_set_ratio(game_name, user_games[k])])
    IN  IF match_result.ok
        THEN [ok |-> TRUE, appid |-> ToStr(match_result.appid)]
        ELSE IF j # 0 /\ token_set_ratio(game_name, user_games[j]) >= 70
             THEN [ok |-> TRUE, appid |-> live[j].k]
             ELSE [ok |-> FALSE, appid |-> PyStr(0)]

(***************************************************************************)
(* steam_monitor.py: tasks, lock, event loop                               *)
(***************************************************************************)
\* the two nested dict iterators of a pass: next position, size of the dict
\* when the iterator was made, items left to yield, slot yielded last
NoIter == [o_pos |-> 0, o_used |-> 0, o_len |-> 0, oidx |-> 0,
           in_inner |-> FALSE,
           i_pos |-> 0, i_used |-> 0, i_len |-> 0, iidx |-> 0]

IdleTask == [op |-> "idle", pc |-> "idle", key |-> <<>>, input |-> "",
             appid |-> PyInt(0), name |-> "", info |-> NoPrice, it |-> NoIter,
             price_changes |-> <<>>, buf |-> Truncated, caller |-> ""]

NoLast == [op |-> "none", key |-> <<>>, input |-> "", ok |-> FALSE,
           error |-> "", price_changes |-> <<>>, info |-> NoPrice,
           caller |-> ""]

catalogVars == <<data_initialized, app_dict_all, app_dict_all_reverse,
                 game_list, refresh>>

PassActive(ts) == \E t \in Tasks : ts[t].op = "run_monitor_prices"

\* dead slots matter only to a running pass
GC(ml, ts) == IF PassActive(ts) THEN ml ELSE Compact(ml)

LockFree == lock.holder = 0 /\ lock.waiters = <<>>

\* asyncio.Lock.release: the first waiter, if any, gets the lock
Release(l) ==
    IF l.waiters = <<>> THEN [holder |-> 0, waiters |-> <<>>]
    ELSE [holder |-> Head(l.waiters), waiters |-> Tail(l.waiters)]

ReleaseIfHeld(l, t) == IF l.holder = t THEN Release(l) ELSE l

\* a new operation takes the lowest idle slot
CanStart(t) ==
    /\ running = 0
    /\ ops_started < MaxOps
    /\ tasks[t].op = "idle"
    /\ \A u \in Tasks : u < t => tasks[u].op # "idle"

Result(task, ok, error) ==
    [op |-> task.op, key |-> task.key, input |-> task.input, ok |-> ok,
     error |-> error, price_changes |-> task.price_changes,
     info |-> task.info, caller |-> task.caller]

\* the operation of slot t, described by task, returns (error = "") or raises
\* with the store ml; the lock is released if the operation holds it
Finish(t, task, ok, error, ml) ==
    LET ts == [tasks EXCEPT ![t] = IdleTask]
    IN  /\ tasks' = ts
        /\ monitor_list' = GC(ml, ts)
        /\ lock' = ReleaseIfHeld(lock, t)
        /\ last' = Result(task, ok, error)
        /\ errors' = IF error = "" THEN errors
                     ELSE errors \cup {[op |-> task.op, error |-> error]}
        /\ running' = 0

\* async with self.monitor_list_lock: go on at pc when the lock is free, else
\* queue and suspend
Acquire(t, task, pc, wait_pc) ==
    IF LockFree
    THEN /\ lock' = [holder |-> t, waiters |-> <<>>]
         /\ tasks' = [tasks EXCEPT ![t] = [task EXCEPT !.pc = pc]]
         /\ running' = t
    ELSE /\ lock' = [lock EXCEPT !.waiters = Append(@, t)]
         /\ tasks' = [tasks EXCEPT ![t] = [task EXCEPT !.pc = wait_pc]]
         /\ running' = 0

\* a queued task resumes once the lock was handed to it
LockGranted(t) ==
    /\ running = 0
    /\ lock.holder = t
    /\ tasks[t].pc \in {"wait_am_locked", "wait_rm_clear", "wait_rm_del",
                        "wait_ag_locked", "wait_rg_locked", "wait_rp_locked"}
    /\ tasks' = [tasks EXCEPT ![t].pc =
                    CASE @ = "wait_am_locked" -> "am_locked"
                      [] @ = "wait_rm_clear" -> "rm_clear"
                      [] @ = "wait_rm_del" -> "rm_del"
                      [] @ = "wait_ag_locked" -> "ag_locked"
                      [] @ = "wait_rg_locked" -> "rg_locked"
                      [] OTHER -> "rp_locked"]
    /\ running' = t
    /\ UNCHANGED <<catalogVars, monitor_list, file, lock, ops_started, errors,
                   last>>
    /\ UNCHANGED relayVars
    /\ UNCHANGED translateVars
    /\ UNCHANGED loopVars
    /\ UNCHANGED botsVars
    /\ UNCHANGED sweepVars



Quiescent == \A t \in Tasks : tasks[t].op = "idle"

(***************************************************************************)
(* steam_monitor.py: initialize                                            *)
(***************************************************************************)
\* what monitor_list.json may hold when the bot starts
InitialFiles ==
    { Serialize(<<>>),
      Serialize(<< [NewKey(Key(<<"u1">>, <<"c1">>), "dict") EXCEPT !.items =
                      << MonitorInfo(PyInt(400), "Portal",
                            [ok |-> TRUE, current_price |-> 100, discount |-> 0]) >>] >>),
      Corrupt }

\* json.dump of app_dict_all into game_list.json (lines 255-256) and the
\* json.load that reads it back (lines 264-265): names stay strings, appids
\* stay numbers
Snapshot(dict) == [kind |-> "json", store |-> dict]

\* what game_list.json may hold when the bot starts: the "{}" that __init__
\* writes when the file is missing, the catalog saved by an earlier run, or
\* bytes that json.load rejects
InitialGameLists == { Snapshot(<<>>), Snapshot(Catalog), Corrupt }

NoRefresh == [n |-> 0, ok |-> FALSE]

\* get_app_list (lines 244-273): ok is whether the GetAppList request
\* succeeded; the result is the two dicts and the file it leaves.  On failure
\* line 260 empties app_dict_all, so the test of line 262 always passes and the
\* dicts are rebuilt from the file, or both emptied when the file cannot be read
get_app_list(dict, rev, snapshot, ok) ==
    IF ok
    THEN [dict |-> Catalog, rev |-> Catalog, file |-> Snapshot(Catalog)]
    ELSE IF snapshot.kind = "json"
         THEN [dict |-> snapshot.store, rev |-> snapshot.store, file |-> snapshot]
         ELSE [dict |-> <<>>, rev |-> <<>>, file |-> snapshot]

\* the relay handles no message while the price watch is examined
RelayIdle ==
    /\ config = ForwardConfig(<<>>, FALSE)
    /\ translator_enabled = FALSE
    /\ msg = [bot |-> FALSE, channel |-> "d1", content |-> "", attachments |-> 0]
    /\ fpc = "start"
    /\ kook_channel_id = None
    /\ forwarded_content = <<>>
    /\ translated_content = None
    /\ success = FALSE
    /\ result = FALSE
    /\ att_i = 0
    /\ stm = NoCall
    /\ cur = NoAttachment
    /\ effects = {}
    /\ text_delivered = FALSE
    /\ att_results = <<>>

WatchInit ==
    /\ data_initialized = FALSE
    /\ app_dict_all = <<>>
    /\ app_dict_all_reverse = <<>>
    /\ game_list \in InitialGameLists
    /\ refresh = NoRefresh
    /\ monitor_list = <<>>
    /\ file \in InitialFiles
    /\ lock = [holder |-> 0, waiters |-> <<>>]
    /\ tasks = [t \in Tasks |-> IdleTask]
    /\ running = 0
    /\ ops_started = 0
    /\ errors = {}
    /\ last = NoLast
    /\ RelayIdle
    /\ TranslateIdle
    /\ LoopsCreated
    /\ BotsIdle
    /\ SweepIdle

\* initialize (lines 90-96): get_app_list, whose request succeeds or fails,
\* load_user_monitors (lines 275-286),
\* data_initialized.set(); a missing or damaged file gives the empty store,
\* which is written back
Initialize ==
    /\ ~data_initialized
    /\ running = 0
    /\ Quiescent
    /\ \E ok \in BOOLEAN :
          LET r == get_app_list(app_dict_all, app_dict_all_reverse, game_list, ok)
          IN  /\ app_dict_all' = r.dict
              /\ app_dict_all_reverse' = r.rev
              /\ game_list' = r.file
              /\ refresh' = [n |-> refresh.n + 1, ok |-> ok]
    /\ IF file.kind = "json"
       THEN monitor_list' = file.store /\ UNCHANGED file
       ELSE monitor_list' = <<>> /\ file' = Serialize(<<>>)
    /\ data_initialized' = TRUE
    /\ UNCHANGED <<lock, tasks, running, ops_started, errors, last>>
    /\ UNCHANGED relayVars
    /\ UNCHANGED translateVars
    /\ UNCHANGED loopVars
    /\ UNCHANGED botsVars
    /\ UNCHANGED sweepVars

(***************************************************************************)
(* steam_monitor.py: add_monitor (lines 361-413)                           *)
(***************************************************************************)
\* lines 372-381: wait for the event, resolve the name, ask for the price
StartAddMonitor(t, user_id, channel_id, game_name) ==
    /\ CanStart(t)
    /\ data_initialized
    /\ ops_started' = ops_started + 1
    /\ LET match_result == get_appid_by_name(app_dict_all, game_name)
           task == [IdleTask EXCEPT !.op = "add_monitor",
                                    !.key = Key(user_id, channel_id),
                                    !.input = game_name,
                                    !.appid = match_result.appid,
                                    !.name = match_result.name]
       IN  IF ~match_result.ok
           THEN Finish(t, task, FALSE, "", monitor_list)
           ELSE /\ tasks' = [tasks EXCEPT ![t] = [task EXCEPT !.pc = "am_fetch"]]
                /\ running' = 0
                /\ UNCHANGED <<monitor_list, lock, last, errors>>
    /\ UNCHANGED <<catalogVars, file>>
    /\ UNCHANGED relayVars
    /\ UNCHANGED translateVars
    /\ UNCHANGED loopVars
    /\ UNCHANGED botsVars
    /\ UNCHANGED sweepVars

\* lines 381-398: the price arrives; build monitor_info, ask for the lock
AmFetched(t) ==
    /\ running = 0
    /\ tasks[t].pc = "am_fetch"
    /\ \E price_info \in PriceInfos \cup {NoPrice} :
          IF ~price_info.ok
          THEN Finish(t, tasks[t], FALSE, "", monitor_list)
          ELSE /\ Acquire(t, [tasks[t] EXCEPT !.info = price_info],
                          "am_locked", "wait_am_locked")
               /\ UNCHANGED <<monitor_list, last, errors>>
    /\ UNCHANGED <<catalogVars, file, ops_started>>
    /\ UNCHANGED relayVars
    /\ UNCHANGED translateVars
    /\ UNCHANGED loopVars
    /\ UNCHANGED botsVars
    /\ UNCHANGED sweepVars

\* lines 399-413, under the lock: create the key, refuse a duplicate, insert,
\* rewrite the file
AmLocked(t) ==
    /\ running = t
    /\ tasks[t].pc = "am_locked"
    /\ LET task == tasks[t]
           ml1 == IF Find(monitor_list, task.key) = 0
                  THEN Append(monitor_list, NewKey(task.key, "dict"))
                  ELSE monitor_list
           ki == Find(ml1, task.key)
           ml2 == [ml1 EXCEPT ![ki].items =
                      Append(@, MonitorInfo(task.appid, task.name, task.info))]
       IN  IF Find(ml1[ki].items, ToStr(task.appid)) # 0
           THEN Finish(t, task, FALSE, "", ml1) /\ UNCHANGED file
           ELSE Finish(t, task, TRUE, "", ml2) /\ file' = Serialize(ml2)
    /\ UNCHANGED <<catalogVars, ops_started>>
    /\ UNCHANGED relayVars
    /\ UNCHANGED translateVars
    /\ UNCHANGED loopVars
    /\ UNCHANGED botsVars
    /\ UNCHANGED sweepVars

(***************************************************************************)
(* steam_monitor.py: remove_monitor (lines 415-479)                        *)
(***************************************************************************)
Del_all(d, i) == [j \in DOMAIN d |-> [d[j] EXCEPT !.live = FALSE]]

\* del d[k] for the key in slot i of dict d (lines 437, 469, 473)
Del(d, i) == [d EXCEPT ![i].live = FALSE]

NotMonitored_never(games, appid) == FALSE

\* line 464: appid not in self.monitor_list[key]
NotMonitored(games, appid) == Find(games, appid) = 0

\* lines 426-467: key check, clear-all or resolution and membership check, then
\* ask for the lock; nothing on this path suspends before the lock
StartRemoveMonitor(t, user_id, channel_id, game_name) ==
    /\ CanStart(t)
    /\ data_initialized
    /\ ops_started' = ops_started + 1
    /\ LET key == Key(user_id, channel_id)
           task == [IdleTask EXCEPT !.op = "remove_monitor", !.key = key,
                                    !.input = game_name]
           ki == Find(monitor_list, key)
           r == ResolveForRemove(app_dict_all, app_dict_all_reverse,
                                 monitor_list[ki].items, game_name)
       IN  IF ki = 0
           THEN Finish(t, task, FALSE, "", monitor_list)
           ELSE IF game_name = ""
           THEN /\ Acquire(t, task, "rm_clear", "wait_rm_clear")
                /\ UNCHANGED <<monitor_list, last, errors>>
           ELSE IF ~r.ok \/ NotMonitored(monitor_list[ki].items, r.appid)
           THEN Finish(t, task, FALSE, "", monitor_list)
           ELSE /\ Acquire(t, [task EXCEPT !.appid = r.appid],
                           "rm_del", "wait_rm_del")
                /\ UNCHANGED <<monitor_list, last, errors>>
    /\ UNCHANGED <<catalogVars, file>>
    /\ UNCHANGED relayVars
    /\ UNCHANGED translateVars
    /\ UNCHANGED loopVars
    /\ UNCHANGED botsVars
    /\ UNCHANGED sweepVars

\* lines 435-439, under the lock: del self.monitor_list[key], rewrite the file
RmClear(t) ==
    /\ running = t
    /\ tasks[t].pc = "rm_clear"
    /\ LET task == tasks[t]
           ki == Find(monitor_list, task.key)
           ml1 == Del(monitor_list, ki)
       IN  IF ki = 0
           THEN Finish(t, task, FALSE, "KeyError", monitor_list) /\ UNCHANGED file
           ELSE Finish(t, task, TRUE, "", ml1) /\ file' = Serialize(ml1)
    /\ UNCHANGED <<catalogVars, ops_started>>
    /\ UNCHANGED relayVars
    /\ UNCHANGED translateVars
    /\ UNCHANGED loopVars
    /\ UNCHANGED botsVars
    /\ UNCHANGED sweepVars

\* lines 468-477, under the lock: delete the entry, delete the key when its
\* list became empty, rewrite the file
RmDel(t) ==
    /\ running = t
    /\ tasks[t].pc = "rm_del"
    /\ LET task == tasks[t]
           ki == Find(monitor_list, task.key)
           ii == Find(monitor_list[ki].items, task.appid)
           ml1 == [monitor_list EXCEPT ![ki].items = Del(@, ii)]
           ml2 == IF Used(ml1[ki].items) = 0
                  THEN Del(ml1, ki)
                  ELSE ml1
       IN  IF ki = 0 \/ ii = 0
           THEN Finish(t, task, FALSE, "KeyError", monitor_list) /\ UNCHANGED file
           ELSE Finish(t, task, TRUE, "", ml2) /\ file' = Serialize(ml2)
    /\ UNCHANGED <<catalogVars, ops_started>>
    /\ UNCHANGED relayVars
    /\ UNCHANGED translateVars
    /\ UNCHANGED loopVars
    /\ UNCHANGED botsVars
    /\ UNCHANGED sweepVars


(***************************************************************************)
(* steam_monitor.py: add_game, remove_game, save_monitor_list              *)
(***************************************************************************)
\* what a user may type as a game id, and str(game_input) for it
DigitInputs == {"400"}
GameInputs == NameInputs \cup DigitInputs
isdigit(game_input) == game_input \in DigitInputs
StrToId(game_input) == PyStr(400)

\* the name the store's appdetails endpoint gives for an id
StoreName(game_id) ==
    Catalog[CHOOSE i \in DOMAIN Catalog : Catalog[i].appid.v = game_id.v].name

\* get_game_name_by_id, lines 71-74: the id as a key of app_dict_all_reverse
CachedName(rev, game_id) ==
    IF \E i \in DOMAIN rev : rev[i].appid = game_id
    THEN [ok |-> TRUE,
          name |-> rev[CHOOSE i \in DOMAIN rev : rev[i].appid = game_id].name]
    ELSE [ok |-> FALSE, name |-> ""]

\* self.app_dict_all[game_name] = game_id (line 86)
PutByName(dict, name, appid) ==
    IF \E i \in DOMAIN dict : dict[i].name = name
    THEN [dict EXCEPT ![CHOOSE i \in DOMAIN dict : dict[i].name = name].appid = appid]
    ELSE Append(dict, [name |-> name, appid |-> appid])

\* self.app_dict_all_reverse[game_id] = game_name (line 85)
PutById(rev, appid, name) ==
    IF \E i \in DOMAIN rev : rev[i].appid = appid
    THEN [rev EXCEPT ![CHOOSE i \in DOMAIN rev : rev[i].appid = appid].name = name]
    ELSE Append(rev, [name |-> name, appid |-> appid])

\* the first lines of add_game (111-132) and remove_game (170-189): an input
\* of digits goes through get_game_name_by_id, which answers from
\* app_dict_all_reverse or asks the store; a name is looked up in app_dict_all
GameStart(t, op, game_input, locked_pc, wait_pc) ==
    LET task == [IdleTask EXCEPT !.op = op, !.key = default_user_id,
                                 !.input = game_input]
        game_id == StrToId(game_input)
        cached == CachedName(app_dict_all_reverse, game_id)
        m == LookupGame(app_dict_all, game_input)
    IN  IF isdigit(game_input)
        THEN IF cached.ok
             THEN /\ Acquire(t, [task EXCEPT !.appid = game_id,
                                             !.name = cached.name],
                             locked_pc, wait_pc)
                  /\ UNCHANGED <<monitor_list, last, errors>>
             ELSE /\ tasks' = [tasks EXCEPT ![t] =
                                 [task EXCEPT !.appid = game_id,
                                              !.pc = "app_details"]]
                  /\ running' = 0
                  /\ UNCHANGED <<monitor_list, lock, last, errors>>
        ELSE IF ~m.ok
             THEN Finish(t, task, FALSE, "", monitor_list)
             ELSE /\ Acquire(t, [task EXCEPT !.appid = m.appid,
                                             !.name = m.name],
                             locked_pc, wait_pc)
                  /\ UNCHANGED <<monitor_list, last, errors>>

\* get_game_name_by_id, lines 76-91: the store answers; a name found goes
\* into both dicts under the id as the string it was asked with
AppDetails(t) ==
    /\ running = 0
    /\ tasks[t].pc = "app_details"
    /\ \E found \in BOOLEAN :
          LET task == tasks[t]
              game_name == StoreName(task.appid)
          IN  IF found
              THEN /\ app_dict_all_reverse' =
                         PutById(app_dict_all_reverse, task.appid, game_name)
                   /\ app_dict_all' = PutByName(app_dict_all, game_name, task.appid)
                   /\ CASE task.op = "add_game" ->
                             /\ Acquire(t, [task EXCEPT !.name = game_name],
                                        "ag_locked", "wait_ag_locked")
                             /\ UNCHANGED <<monitor_list, last, errors>>
                        [] task.op = "remove_game" ->
                             /\ Acquire(t, [task EXCEPT !.name = game_name],
                                        "rg_locked", "wait_rg_locked")
                             /\ UNCHANGED <<monitor_list, last, errors>>
                        [] OTHER ->
                             Finish(t, [task EXCEPT !.name = game_name], TRUE,
                                    "", monitor_list)
              ELSE /\ Finish(t, task, FALSE, "", monitor_list)
                   /\ UNCHANGED <<app_dict_all, app_dict_all_reverse>>
    /\ UNCHANGED <<data_initialized, game_list, refresh, file, ops_started>>
    /\ UNCHANGED relayVars
    /\ UNCHANGED translateVars
    /\ UNCHANGED loopVars
    /\ UNCHANGED botsVars
    /\ UNCHANGED sweepVars

\* the ids a command hands to get_game_name_by_id (kook.py line 70,
\* discord_bot.py line 100)
IdInputs == {PyStr(400), PyStr(500)}

\* get_game_name_by_id, lines 68-74, once the catalog test of line 64 is
\* behind: answer from rev, or go and ask the store
LookedUp(t, task, rev) ==
    LET cached == CachedName(rev, task.appid)
    IN  IF cached.ok
        THEN Finish(t, [task EXCEPT !.name = cached.name], TRUE, "",
                    monitor_list)
        ELSE /\ tasks' = [tasks EXCEPT ![t] = [task EXCEPT !.pc = "app_details"]]
             /\ running' = 0
             /\ UNCHANGED <<monitor_list, lock, last, errors>>

\* get_game_name_by_id called by a command, lines 64-74: an empty app_dict_all
\* sends it to get_app_list first; the event data_initialized is not consulted
StartGetGameNameById(t, game_id) ==
    /\ CanStart(t)
    /\ ops_started' = ops_started + 1
    /\ LET task == [IdleTask EXCEPT !.op = "get_game_name_by_id",
                                    !.appid = ToStr(game_id)]
       IN  IF app_dict_all = <<>>
           THEN /\ tasks' = [tasks EXCEPT ![t] =
                               [task EXCEPT !.pc = "get_app_list"]]
                /\ running' = 0
                /\ UNCHANGED <<monitor_list, lock, last, errors>>
           ELSE LookedUp(t, task, app_dict_all_reverse)
    /\ UNCHANGED <<catalogVars, file>>
    /\ UNCHANGED relayVars
    /\ UNCHANGED translateVars
    /\ UNCHANGED loopVars
    /\ UNCHANGED botsVars
    /\ UNCHANGED sweepVars

\* line 65: the get_app_list awaited by get_game_name_by_id returns, and the
\* lookup of lines 68-74 follows
GetNameRefreshed(t) ==
    /\ running = 0
    /\ tasks[t].pc = "get_app_list"
    /\ \E ok \in BOOLEAN :
          LET r == get_app_list(app_dict_all, app_dict_all_reverse, game_list, ok)
          IN  /\ app_dict_all' = r.dict
              /\ app_dict_all_reverse' = r.rev
              /\ game_list' = r.file
              /\ refresh' = [n |-> refresh.n + 1, ok |-> ok]
              /\ LookedUp(t, tasks[t], r.rev)
    /\ UNCHANGED <<data_initialized, file, ops_started>>
    /\ UNCHANGED relayVars
    /\ UNCHANGED translateVars
    /\ UNCHANGED loopVars
    /\ UNCHANGED botsVars
    /\ UNCHANGED sweepVars

\* lines 108-132: find the game, ask for the lock
StartAddGame(t, game_input) ==
    /\ CanStart(t)
    /\ data_initialized
    /\ ops_started' = ops_started + 1
    /\ GameStart(t, "add_game", game_input, "ag_locked", "wait_ag_locked")
    /\ UNCHANGED <<catalogVars, file>>
    /\ UNCHANGED relayVars
    /\ UNCHANGED translateVars
    /\ UNCHANGED loopVars
    /\ UNCHANGED botsVars
    /\ UNCHANGED sweepVars

\* lines 133-153, under the lock: create the "default" list, refuse a
\* duplicate, append, then await save_monitor_list() with the lock held
AgLocked(t) ==
    /\ running = t
    /\ tasks[t].pc = "ag_locked"
    /\ LET task == tasks[t]
           ml1 == IF Find(monitor_list, default_user_id) = 0
                  THEN Append(monitor_list, NewKey(default_user_id, "list"))
                  ELSE monitor_list
           ki == Find(ml1, default_user_id)
           ml2 == [ml1 EXCEPT ![ki].items =
                      Append(@, GameInfo(task.appid, task.name))]
       IN  IF \E i \in DOMAIN ml1[ki].items : ml1[ki].items[i].id = task.appid
           THEN Finish(t, task, FALSE, "", ml1)
           ELSE /\ monitor_list' = ml2
                /\ tasks' = [tasks EXCEPT ![t].pc = "save_open"]
                /\ running' = 0
                /\ UNCHANGED <<lock, last, errors>>
    /\ UNCHANGED <<catalogVars, file, ops_started>>
    /\ UNCHANGED relayVars
    /\ UNCHANGED translateVars
    /\ UNCHANGED loopVars
    /\ UNCHANGED botsVars
    /\ UNCHANGED sweepVars

\* lines 167-189: find the game, ask for the lock
StartRemoveGame(t, game_input) ==
    /\ CanStart(t)
    /\ data_initialized
    /\ ops_started' = ops_started + 1
    /\ GameStart(t, "remove_game", game_input, "rg_locked", "wait_rg_locked")
    /\ UNCHANGED <<catalogVars, file>>
    /\ UNCHANGED relayVars
    /\ UNCHANGED translateVars
    /\ UNCHANGED loopVars
    /\ UNCHANGED botsVars
    /\ UNCHANGED sweepVars

\* lines 190-211, under the lock: pop the game from the "default" list, then
\* await save_monitor_list() with the lock held; the key stays
RgLocked(t) ==
    /\ running = t
    /\ tasks[t].pc = "rg_locked"
    /\ LET task == tasks[t]
           ki == Find(monitor_list, default_user_id)
           games == monitor_list[ki].items
           hits == {i \in DOMAIN games : games[i].id = task.appid}
           i == CHOOSE i \in hits : \A j \in hits : i <= j
       IN  IF ki = 0 \/ hits = {}
           THEN Finish(t, task, FALSE, "", monitor_list)
           ELSE /\ monitor_list' = [monitor_list EXCEPT ![ki].items = RemoveAt(@, i)]
                /\ tasks' = [tasks EXCEPT ![t].pc = "save_open"]
                /\ running' = 0
                /\ UNCHANGED <<lock, last, errors>>
    /\ UNCHANGED <<catalogVars, file, ops_started>>
    /\ UNCHANGED relayVars
    /\ UNCHANGED translateVars
    /\ UNCHANGED loopVars
    /\ UNCHANGED botsVars
    /\ UNCHANGED sweepVars

\* save_monitor_list, lines 235-237: aiofiles has opened the file for writing
\* (it is empty now); the store is serialised as it is at this moment
SaveOpened(t) ==
    /\ running = 0
    /\ tasks[t].pc = "save_open"
    /\ file' = Truncated
    /\ tasks' = [tasks EXCEPT ![t].pc = "save_write",
                              ![t].buf = Serialize(monitor_list)]
    /\ UNCHANGED <<catalogVars, monitor_list, lock, running, ops_started,
                   errors, last>>
    /\ UNCHANGED relayVars
    /\ UNCHANGED translateVars
    /\ UNCHANGED loopVars
    /\ UNCHANGED botsVars
    /\ UNCHANGED sweepVars

\* save_monitor_list, line 237 and the end of the caller: the text is in the
\* file, the lock is released, the caller returns True
SaveWritten(t) ==
    /\ running = 0
    /\ tasks[t].pc = "save_write"
    /\ file' = tasks[t].buf
    /\ Finish(t, tasks[t], TRUE, "", monitor_list)
    /\ UNCHANGED <<catalogVars, ops_started>>
    /\ UNCHANGED relayVars
    /\ UNCHANGED translateVars
    /\ UNCHANGED loopVars
    /\ UNCHANGED botsVars
    /\ UNCHANGED sweepVars

(***************************************************************************)
(* steam_monitor.py: run_monitor_prices (lines 502-561)                    *)
(***************************************************************************)
\* next() on the iterators of lines 519 and 522.  A dict iterator raises
\* RuntimeError when the dict's size differs from the size it had when the
\* iterator was made, or when it has yielded that many items and finds
\* another; line 520 raises ValueError unless the key has exactly one "_";
\* line 522 raises AttributeError on a list
RECURSIVE Advance(_, _)
Advance(ml, it) ==
    IF it.in_inner
    THEN LET games == ml[it.oidx].items
             j == NextLive(games, it.i_pos)
         IN  IF it.i_used # Used(games)
             THEN [status |-> "RuntimeError", it |-> it]
             ELSE IF j = 0
             THEN Advance(ml, [it EXCEPT !.in_inner = FALSE])
             ELSE IF it.i_len = 0
             THEN [status |-> "RuntimeError", it |-> it]
             ELSE [status |-> "fetch",
                   it |-> [it EXCEPT !.iidx = j, !.i_pos = j + 1,
                                     !.i_len = @ - 1]]
    ELSE LET i == NextLive(ml, it.o_pos)
         IN  IF it.o_used # Used(ml)
             THEN [status |-> "RuntimeError", it |-> it]
             ELSE IF i = 0
             THEN [status |-> "end", it |-> it]
             ELSE IF it.o_len = 0
             THEN [status |-> "RuntimeError", it |-> it]
             ELSE IF Len(Split(ml[i].k)) # 2
             THEN [status |-> "ValueError", it |-> it]
             ELSE IF ml[i].kind # "dict"
             THEN [status |-> "AttributeError", it |-> it]
             ELSE Advance(ml, [it EXCEPT !.oidx = i, !.o_pos = i + 1,
                                         !.o_len = @ - 1, !.in_inner = TRUE,
                                         !.i_pos = 1, !.iidx = 0,
                                         !.i_used = Used(ml[i].items),
                                         !.i_len = Used(ml[i].items)])

\* where a pass goes after a move r of its iterators over the store ml:
\* line 524 (the next price), lines 555-558 (the write), line 561, or out
\* with an exception
PassStep(t, task, r, ml) ==
    IF r.status = "fetch"
    THEN /\ tasks' = [tasks EXCEPT ![t] = [task EXCEPT !.pc = "rp_fetch",
                                                       !.it = r.it]]
         /\ running' = 0
         /\ monitor_list' = ml
         /\ UNCHANGED <<lock, last, errors>>
    ELSE IF r.status = "end"
    THEN IF task.price_changes # <<>>
         THEN /\ Acquire(t, task, "rp_locked", "wait_rp_locked")
              /\ monitor_list' = ml
              /\ UNCHANGED <<last, errors>>
         ELSE Finish(t, task, TRUE, "", ml)
    ELSE Finish(t, task, FALSE, r.status, ml)

\* who calls run_monitor_prices: the interval job that __init__ gives the
\* APScheduler (lines 34-38), which drops the value returned, and
\* handle_price_changes of kook.py (lines 170-190), which sends a message
\* for every change returned
Callers == {"scheduler", "handle_price_changes"}

\* the scheduler runs from initialize on (line 94), one instance of the job
\* at a time; handle_price_changes runs on its own timer
MayCall(caller) ==
    caller = "scheduler" =>
        /\ data_initialized
        /\ \A u \in Tasks : tasks[u].caller # "scheduler"

\* lines 506-524: the two early returns, then the first entry
StartPass(t, caller) ==
    /\ CanStart(t)
    /\ MayCall(caller)
    /\ ops_started' = ops_started + 1
    /\ LET task == [IdleTask EXCEPT !.op = "run_monitor_prices",
                                    !.caller = caller]
           it == [NoIter EXCEPT !.o_pos = 1, !.o_used = Used(monitor_list),
                                !.o_len = Used(monitor_list)]
       IN  IF ~data_initialized \/ Used(monitor_list) = 0
           THEN Finish(t, task, TRUE, "", monitor_list)
           ELSE PassStep(t, task, Advance(monitor_list, it), monitor_list)
    /\ UNCHANGED <<catalogVars, file>>
    /\ UNCHANGED relayVars
    /\ UNCHANGED translateVars
    /\ UNCHANGED loopVars
    /\ UNCHANGED botsVars
    /\ UNCHANGED sweepVars

Favorable_always(price_info, game_info) == TRUE

\* the comparison of line 535
Favorable(price_info, game_info) ==
    \/ price_info.current_price < game_info.last_price
    \/ price_info.discount > game_info.last_discount

\* lines 524-552: the price of the current entry arrives; a favourable one is
\* written into the entry and recorded, then the iteration moves on
RpFetched(t) ==
    /\ running = 0
    /\ tasks[t].pc = "rp_fetch"
    /\ \E price_info \in PriceInfos \cup {NoPrice} :
          LET task == tasks[t]
              it == task.it
              game_info == monitor_list[it.oidx].items[it.iidx]
              hit == price_info.ok /\ Favorable(price_info, game_info)
              ml1 == IF hit
                     THEN [monitor_list EXCEPT
                             ![it.oidx].items[it.iidx].last_price =
                                 price_info.current_price,
                             ![it.oidx].items[it.iidx].last_discount =
                                 price_info.discount]
                     ELSE monitor_list
              task1 == IF hit
                       THEN [task EXCEPT !.info = price_info,
                                         !.price_changes = Append(@,
                               [key |-> monitor_list[it.oidx].k,
                                appid |-> game_info.k,
                                old_price |-> game_info.last_price,
                                new_price |-> price_info.current_price,
                                old_discount |-> game_info.last_discount,
                                new_discount |-> price_info.discount])]
                       ELSE [task EXCEPT !.info = price_info]
          IN  PassStep(t, task1, Advance(ml1, it), ml1)
    /\ UNCHANGED <<catalogVars, file, ops_started>>
    /\ UNCHANGED relayVars
    /\ UNCHANGED translateVars
    /\ UNCHANGED loopVars
    /\ UNCHANGED botsVars
    /\ UNCHANGED sweepVars

\* lines 555-561, under the lock: rewrite the file, return the changes
RpLocked(t) ==
    /\ running = t
    /\ tasks[t].pc = "rp_locked"
    /\ file' = Serialize(monitor_list)
    /\ Finish(t, tasks[t], TRUE, "", monitor_list)
    /\ UNCHANGED <<catalogVars, ops_started>>
    /\ UNCHANGED relayVars
    /\ UNCHANGED translateVars
    /\ UNCHANGED loopVars
    /\ UNCHANGED botsVars
    /\ UNCHANGED sweepVars

(***************************************************************************)
(* steam_monitor.py: list_monitors (lines 481-500)                         *)
(***************************************************************************)
\* what list_monitors returns for a key once data_initialized is set; it
\* reads the store and never suspends
list_monitors(ml, key) ==
    LET ki == Find(ml, key)
    IN  IF ki = 0 \/ Used(ml[ki].items) = 0 THEN <<>>
        ELSE DropDead(ml[ki].items)

(***************************************************************************)
(* The price watch as a whole                                              *)
(***************************************************************************)
WatchNext ==
    \/ Initialize
    \/ \E t \in Tasks, user_id \in Users, channel_id \in Channels :
          \/ \E game_name \in NameInputs :
                StartAddMonitor(t, user_id, channel_id, game_name)
          \/ \E game_name \in NameInputs \cup {""} :
                StartRemoveMonitor(t, user_id, channel_id, game_name)
    \/ \E t \in Tasks, game_input \in GameInputs :
          \/ StartAddGame(t, game_input)
          \/ StartRemoveGame(t, game_input)
    \/ \E t \in Tasks, caller \in Callers : StartPass(t, caller)
    \/ \E t \in Tasks :
          \/ AppDetails(t)
          \/ LockGranted(t)
          \/ AmFetched(t)
          \/ AmLocked(t)
          \/ RmClear(t)
          \/ RmDel(t)
          \/ AgLocked(t)
          \/ RgLocked(t)
          \/ SaveOpened(t)
          \/ SaveWritten(t)
          \/ RpFetched(t)
          \/ RpLocked(t)

WatchSpec == WatchInit /\ [][WatchNext]_vars

\* name resolution alone: add_monitor and add_game on catalogs in which one
\* name holds all the words of another, with inputs that score at and around
\* the two thresholds
ResolveCatalogs ==
    { << [name |-> "Portal 2", appid |-> PyInt(620)],
         [name |-> "Portal", appid |-> PyInt(400)] >>,
      << [name |-> "Portal", appid |-> PyInt(400)],
         [name |-> "Portal 2", appid |-> PyInt(620)] >>,
      << [name |-> "Subnautica", appid |-> PyInt(264710)],
         [name |-> "Limbo", appid |-> PyInt(500)] >> }

ResolveInputs == {"Portal", "Subnautxyz", "Subnautixx", "Subnauwxyz"}

\* the state initialize leaves when GetAppList answers with one of the
\* catalogs above and monitor_list.json holds {}
ResolveInit ==
    /\ data_initialized = TRUE
    /\ app_dict_all \in ResolveCatalogs
    /\ app_dict_all_reverse = app_dict_all
    /\ game_list = Snapshot(app_dict_all)
    /\ refresh = [n |-> 1, ok |-> TRUE]
    /\ monitor_list = <<>>
    /\ file = Serialize(<<>>)
    /\ lock = [holder |-> 0, waiters |-> <<>>]
    /\ tasks = [t \in Tasks |-> IdleTask]
    /\ running = 0
    /\ ops_started = 0
    /\ errors = {}
    /\ last = NoLast
    /\ RelayIdle
    /\ TranslateIdle
    /\ LoopsCreated
    /\ BotsIdle
    /\ SweepIdle

ResolveNext ==
    \/ \E t \in Tasks, u \in Users, c \in Channels, n \in ResolveInputs :
          StartAddMonitor(t, u, c, n)
    \/ \E t \in Tasks : AmFetched(t)
    \/ \E t \in Tasks : AmLocked(t)
    \/ \E t \in Tasks, n \in ResolveInputs : StartAddGame(t, n)
    \/ \E t \in Tasks : AgLocked(t)
    \/ \E t \in Tasks : SaveOpened(t)
    \/ \E t \in Tasks : SaveWritten(t)
    \/ \E t \in Tasks : LockGranted(t)

ResolveSpec == ResolveInit /\ [][ResolveNext]_vars

\* the catalog alone: initialize and the commands that ask for a game's name
CatalogNext ==
    \/ Initialize
    \/ \E t \in Tasks, game_id \in IdInputs : StartGetGameNameById(t, game_id)
    \/ \E t \in Tasks : GetNameRefreshed(t)
    \/ \E t \in Tasks : AppDetails(t)

CatalogSpec == WatchInit /\ [][CatalogNext]_vars

(***************************************************************************)
(* translator.py: Translator.translate_text (lines 464-509)                *)
(***************************************************************************)
\* a Translator as __init__ leaves it (lines 343-380: no service unless
\* enabled) and the text translate_text is given
TranslateInit ==
    /\ enabled \in BOOLEAN
    /\ service \in (IF enabled THEN {None, "libre"} ELSE {None})
    /\ whitelist \in Whitelists
    /\ text \in Texts
    /\ tpc = "start"
    /\ parts = <<>>
    /\ part_i = 0
    /\ tr_result = <<>>
    /\ provider_calls = <<>>
    /\ tr_return = Pending
    /\ RelayIdle
    /\ WatchIdle
    /\ LoopsCreated
    /\ BotsIdle
    /\ SweepIdle

\* lines 473-490: the early returns, then the whole text goes to the
\* service or is split
TranslateText ==
    /\ tpc = "start"
    /\ LET s == Join(text)
       IN  IF \/ ~is_enabled(enabled, service)
              \/ IsBlank(s)
              \/ _should_skip_translation(whitelist, s)
           THEN /\ tr_return' = Str(Raw(s))
                /\ tpc' = "done"
                /\ UNCHANGED <<parts, part_i>>
           ELSE IF ~_contains_code_block(s)
                THEN /\ tpc' = "translate_whole"
                     /\ UNCHANGED <<parts, part_i, tr_return>>
                ELSE /\ parts' = _split_text_and_code_blocks(text)
                     /\ part_i' = 1
                     /\ tpc' = "parts"
                     /\ UNCHANGED tr_return
    /\ UNCHANGED <<enabled, service, whitelist, text, tr_result, provider_calls>>
    /\ UNCHANGED relayVars
    /\ UNCHANGED watchVars
    /\ UNCHANGED loopVars
    /\ UNCHANGED botsVars
    /\ UNCHANGED sweepVars

\* lines 481-486: the service answers for the whole text
TranslateWhole ==
    /\ tpc = "translate_whole"
    /\ \E outcome \in ProviderOutcomes :
          /\ provider_calls' = Append(provider_calls,
                                      [q |-> Join(text), outcome |-> outcome])
          /\ tr_return' = translate(Join(text), outcome)
    /\ tpc' = "done"
    /\ UNCHANGED <<enabled, service, whitelist, text, parts, part_i, tr_result>>
    /\ UNCHANGED relayVars
    /\ UNCHANGED watchVars
    /\ UNCHANGED loopVars
    /\ UNCHANGED botsVars
    /\ UNCHANGED sweepVars

\* lines 493-506: the next part is kept as it is or goes to the service;
\* after the last part the result is tr_return
NextPart ==
    /\ tpc = "parts"
    /\ IF part_i > Len(parts)
       THEN /\ tr_return' = Str(tr_result)
            /\ tpc' = "done"
            /\ UNCHANGED <<part_i, tr_result>>
       ELSE LET part == parts[part_i]
            IN  IF /\ part.type = "text"
                   /\ ~IsBlank(part.content)
                   /\ ~_should_skip_translation(whitelist, part.content)
                THEN /\ tpc' = "translate_part"
                     /\ UNCHANGED <<part_i, tr_result, tr_return>>
                ELSE /\ tr_result' = Cat(tr_result, Raw(part.content))
                     /\ part_i' = part_i + 1
                     /\ UNCHANGED <<tpc, tr_return>>
    /\ UNCHANGED <<enabled, service, whitelist, text, parts, provider_calls>>
    /\ UNCHANGED relayVars
    /\ UNCHANGED watchVars
    /\ UNCHANGED loopVars
    /\ UNCHANGED botsVars
    /\ UNCHANGED sweepVars

\* lines 500-501 and 507-509: the service answers for a part; result +=
\* translated raises TypeError for what is no str, and the handler returns
\* the text
TranslatePart ==
    /\ tpc = "translate_part"
    /\ \E outcome \in ProviderOutcomes :
          LET q == parts[part_i].content
              translated == translate(q, outcome)
          IN  /\ provider_calls' = Append(provider_calls,
                                          [q |-> q, outcome |-> outcome])
              /\ IF translated.kind = "str"
                 THEN /\ tr_result' = Cat(tr_result, translated.v)
                      /\ part_i' = part_i + 1
                      /\ tpc' = "parts"
                      /\ UNCHANGED tr_return
                 ELSE /\ tr_return' = Str(Raw(Join(text)))
                      /\ tpc' = "done"
                      /\ UNCHANGED <<part_i, tr_result>>
    /\ UNCHANGED <<enabled, service, whitelist, text, parts>>
    /\ UNCHANGED relayVars
    /\ UNCHANGED watchVars
    /\ UNCHANGED loopVars
    /\ UNCHANGED botsVars
    /\ UNCHANGED sweepVars

TranslateNext ==
    \/ TranslateText
    \/ TranslateWhole
    \/ NextPart
    \/ TranslatePart

TranslateSpec == TranslateInit /\ [][TranslateNext]_vars

(***************************************************************************)
(* steam_monitor.py: the start of the bot.  initialize is called by        *)
(* on_ready (discord_bot.py line 56, kook.py line 41); get_monitored_games *)
(* calls it too when the event is not set (lines 221-223), as add_game     *)
(* (lines 108-109) and remove_game (lines 167-168) do                      *)
(***************************************************************************)
\* the call of initialize made at startup: await get_app_list() (line 92)
StartInitialize(t) ==
    /\ CanStart(t)
    /\ refresh.n = 0
    /\ \A u \in Tasks : tasks[u].op # "initialize"
    /\ ops_started' = ops_started + 1
    /\ tasks' = [tasks EXCEPT ![t] = [IdleTask EXCEPT !.op = "initialize",
                                                      !.pc = "init_apps"]]
    /\ running' = 0
    /\ UNCHANGED <<catalogVars, monitor_list, file, lock, errors, last>>
    /\ UNCHANGED relayVars
    /\ UNCHANGED translateVars
    /\ UNCHANGED loopVars
    /\ UNCHANGED botsVars
    /\ UNCHANGED sweepVars

\* get_monitored_games (lines 215-230): the list of "default" when the event
\* is set, else await self.initialize() first
StartGetMonitoredGames(t) ==
    /\ CanStart(t)
    /\ ops_started' = ops_started + 1
    /\ LET task == [IdleTask EXCEPT !.op = "get_monitored_games",
                                    !.key = default_user_id]
       IN  IF data_initialized
           THEN Finish(t, task, TRUE, "", monitor_list)
           ELSE /\ tasks' = [tasks EXCEPT ![t] = [task EXCEPT !.pc = "init_apps"]]
                /\ running' = 0
                /\ UNCHANGED <<monitor_list, lock, last, errors>>
    /\ UNCHANGED <<catalogVars, file>>
    /\ UNCHANGED relayVars
    /\ UNCHANGED translateVars
    /\ UNCHANGED loopVars
    /\ UNCHANGED botsVars
    /\ UNCHANGED sweepVars

\* the request of get_app_list is answered and initialize runs to its end
\* (lines 92-96): the catalog, load_user_monitors (the lock is free),
\* scheduler.start(), which raises SchedulerAlreadyRunningError when an
\* earlier run of initialize started the scheduler, then data_initialized.set()
AppListReturned(t) ==
    /\ running = 0
    /\ tasks[t].pc = "init_apps"
    /\ LockFree
    /\ \E ok \in BOOLEAN :
          LET r == get_app_list(app_dict_all, app_dict_all_reverse, game_list, ok)
          IN  /\ app_dict_all' = r.dict
              /\ app_dict_all_reverse' = r.rev
              /\ game_list' = r.file
              /\ refresh' = [n |-> refresh.n + 1, ok |-> ok]
    /\ file' = IF file.kind = "json" THEN file ELSE Serialize(<<>>)
    /\ LET loaded == IF file.kind = "json" THEN file.store ELSE <<>>
       IN  IF data_initialized
           THEN Finish(t, tasks[t], FALSE, "SchedulerAlreadyRunningError", loaded)
           ELSE Finish(t, tasks[t], TRUE, "", loaded)
    /\ data_initialized' = TRUE
    /\ UNCHANGED ops_started
    /\ UNCHANGED relayVars
    /\ UNCHANGED translateVars
    /\ UNCHANGED loopVars
    /\ UNCHANGED botsVars
    /\ UNCHANGED sweepVars

StartupNext ==
    \/ \E t \in Tasks : StartInitialize(t)
    \/ \E t \in Tasks : StartGetMonitoredGames(t)
    \/ \E t \in Tasks : AppListReturned(t)

StartupSpec == WatchInit /\ [][StartupNext]_vars

(***************************************************************************)
(* The two bots: each has its own SteamMonitor (discord_bot.py line 21,    *)
(* kook.py line 20), so its own monitor_list and its own lock, and both    *)
(* use data/steam/monitor_list.json (steam_monitor.py line 20)             *)
(***************************************************************************)
\* both monitors have run initialize: each loaded the catalog and the file
TwoBotsInit ==
    /\ data_initialized = TRUE
    /\ app_dict_all = Catalog
    /\ app_dict_all_reverse = Catalog
    /\ game_list = Snapshot(Catalog)
    /\ refresh = [n |-> 1, ok |-> TRUE]
    /\ monitor_list = <<>>
    /\ file \in {f \in InitialFiles : f.kind = "json"}
    /\ steam_monitors = [b \in Bots |-> file.store]
    /\ lock = [holder |-> 0, waiters |-> <<>>]
    /\ tasks = [t \in Tasks |-> IdleTask]
    /\ running = 0
    /\ ops_started = 0
    /\ errors = {}
    /\ last = NoLast
    /\ RelayIdle
    /\ TranslateIdle
    /\ LoopsCreated
    /\ SweepIdle

\* add_monitor (lines 361-413) on the SteamMonitor of one bot, from the call
\* to the return: the name is resolved, the price fetched, the entry put into
\* that monitor's monitor_list under that monitor's lock, and that
\* monitor_list written to the file
AddMonitorVia(bot, user_id, channel_id, game_name) ==
    /\ ops_started < MaxOps
    /\ ops_started' = ops_started + 1
    /\ \E price_info \in PriceInfos \cup {NoPrice} :
          LET match_result == get_appid_by_name(app_dict_all, game_name)
              key == Key(user_id, channel_id)
              ml == steam_monitors[bot]
              ml1 == IF Find(ml, key) = 0
                     THEN Append(ml, NewKey(key, "dict"))
                     ELSE ml
              ki == Find(ml1, key)
              ml2 == [ml1 EXCEPT ![ki].items =
                        Append(@, MonitorInfo(match_result.appid,
                                              match_result.name, price_info))]
          IN  IF ~match_result.ok \/ ~price_info.ok
              THEN UNCHANGED <<steam_monitors, file>>
              ELSE IF Find(ml1[ki].items, ToStr(match_result.appid)) # 0
              THEN /\ steam_monitors' = [steam_monitors EXCEPT ![bot] = ml1]
                   /\ UNCHANGED file
              ELSE /\ steam_monitors' = [steam_monitors EXCEPT ![bot] = ml2]
                   /\ file' = Serialize(ml2)
    /\ UNCHANGED <<catalogVars, monitor_list, lock, tasks, running, errors,
                   last>>
    /\ UNCHANGED relayVars
    /\ UNCHANGED translateVars
    /\ UNCHANGED loopVars
    /\ UNCHANGED sweepVars

TwoBotsNext ==
    \E bot \in Bots, user_id \in Users, channel_id \in Channels,
       game_name \in NameInputs :
        AddMonitorVia(bot, user_id, channel_id, game_name)

TwoBotsSpec == TwoBotsInit /\ [][TwoBotsNext]_vars

(***************************************************************************)
(* The tasks of the Discord bot's event loop: the handler of one inbound   *)
(* message (on_message awaits forward_message, discord_bot.py lines        *)
(* 184-189) and the recurring tasks.  The message is one of the watched    *)
(* channel, written by a person, without attachments; the exceptions of    *)
(* its handling are those of the translation and of the delivery of the    *)
(* text.                                                                   *)
(***************************************************************************)
ServiceInit ==
    /\ config = ForwardConfig(<< <<"d1", "k2">>, <<" d1 ", " k1 ">> >>, FALSE)
    /\ translator_enabled = TRUE
    /\ msg \in [bot : {FALSE}, channel : {"d1"}, content : Contents,
                attachments : {0}]
    /\ fpc = "start"
    /\ kook_channel_id = None
    /\ forwarded_content = <<>>
    /\ translated_content = None
    /\ success = FALSE
    /\ result = FALSE
    /\ att_i = 0
    /\ stm = NoCall
    /\ cur = NoAttachment
    /\ effects = {}
    /\ text_delivered = FALSE
    /\ att_results = <<>>
    /\ WatchIdle
    /\ TranslateIdle
    /\ LoopsCreated
    /\ BotsIdle
    /\ SweepIdle

\* asyncio.sleep of the body returns: the interval is over
\* (message_forwarder.py line 584, cleanup.py line 41, discord_bot.py line 76)
LoopSleep ==
    /\ \E l \in Loops :
          /\ loops[l].pc = "sleep"
          /\ loops' = [loops EXCEPT ![l].pc = "tick"]
    /\ UNCHANGED relayVars
    /\ UNCHANGED watchVars
    /\ UNCHANGED translateVars
    /\ UNCHANGED botsVars
    /\ UNCHANGED sweepVars

\* the work of one tick (message_forwarder.py line 585, cleanup.py line 39,
\* discord_bot.py line 78) ends, normally or with an exception
LoopTick ==
    /\ \E l \in Loops : \E outcome \in TickOutcomes(l) :
          /\ loops[l].pc = "tick"
          /\ loops' = [loops EXCEPT ![l] = [pc |-> AfterTick(outcome),
                                            last |-> outcome]]
    /\ UNCHANGED relayVars
    /\ UNCHANGED watchVars
    /\ UNCHANGED translateVars
    /\ UNCHANGED botsVars
    /\ UNCHANGED sweepVars

\* the sleep of the handler returns and the while loop starts its body again
\* (message_forwarder.py lines 586-589, cleanup.py lines 42-45,
\* discord_bot.py lines 79-81)
LoopBackoff ==
    /\ \E l \in Loops :
          /\ loops[l].pc = "backoff"
          /\ loops' = [loops EXCEPT ![l].pc = Top(l)]
    /\ UNCHANGED relayVars
    /\ UNCHANGED watchVars
    /\ UNCHANGED translateVars
    /\ UNCHANGED botsVars
    /\ UNCHANGED sweepVars

LoopNext ==
    \/ LoopSleep
    \/ LoopTick
    \/ LoopBackoff

\* one step of the recurring task l
LoopStep(l) ==
    /\ loops[l].pc \in {"sleep", "tick", "backoff"}
    /\ \E pc \in {"sleep", "tick", "backoff", "ended"} :
          \E outcome \in {"none", "ok", "raised"} :
             loops' = [loops EXCEPT ![l] = [pc |-> pc, last |-> outcome]]
    /\ LoopNext

\* the steps of forward_message for a message without attachments
MessageNext ==
    \/ ForwardMessage
    \/ BuildForwardMessage
    \/ SendText
    \/ TextFallbackReturn
    \/ ReturnSuccess
    \/ StmNative
    \/ StmHttp
    \/ StmSleep
    \/ StmExhausted
    \/ StmReturn

ServiceNext ==
    \/ ForwardMessage
    \/ BuildForwardMessage
    \/ SendText
    \/ TextFallbackReturn
    \/ ReturnSuccess
    \/ StmNative
    \/ StmHttp
    \/ StmSleep
    \/ StmExhausted
    \/ StmReturn
    \/ LoopSleep
    \/ LoopTick
    \/ LoopBackoff

\* the event loop runs every task that is ready: a sleep that is over
\* returns, and a coroutine that can take its next step takes it
ServiceSpec ==
    /\ ServiceInit
    /\ [][ServiceNext]_vars
    /\ WF_vars(MessageNext)
    /\ \A l \in Loops : WF_vars(LoopStep(l))


(***************************************************************************)
(* Properties of the relay                                                 *)
(***************************************************************************)
PolicyRejects == msg.bot /\ ~config.forward_bot_messages
NoRule == msg.channel \notin DOMAIN config.forward_rules
AnyAttachmentForwarded ==
    \E i \in 1..Len(att_results) : att_results[i] = "forwarded"

\* C1: a message the policy rejects (bot-authored while forward_bot_messages
\* is false) or whose source channel has no rule makes forward_message return
\* False at once: no send, no translation, no download, no cleanup scheduling.
C1_RejectedNoSideEffects ==
    (PolicyRejects \/ NoRule) =>
        /\ effects = {}
        /\ fpc \in {"start", "done"}
        /\ fpc = "done" => result = FALSE

C1_Witness == fpc = "done" /\ PolicyRejects /\ ~NoRule /\ msg.attachments > 0

\* C2: forward_message returns True exactly when the text was delivered
\* (natively or by the HTTP fallback) or at least one attachment was
\* forwarded.
C2_SuccessIffDelivered ==
    fpc = "done" => (result <=> (text_delivered \/ AnyAttachmentForwarded))

C4_AttachmentIsolation ==
    [][ /\ text_delivered => text_delivered'
        /\ Len(att_results') > Len(att_results) =>
              /\ att_i' = att_i + 1
              /\ fpc' = "att_loop"
        /\ (fpc' = "done" /\ att_i' # 0) =>
              Len(att_results') = msg'.attachments
      ]_vars

C4_Witness ==
    /\ fpc = "done"
    /\ text_delivered
    /\ Len(att_results) = 2
    /\ att_results[1] = "failed"
    /\ att_results[2] = "forwarded"

\* C5: a downloaded attachment with an unsupported extension or a size above
\* 20 MiB is never handed to a file-send or upload call and gets a text-only
\* notice; a file of exactly 20 MiB is not rejected for its size.
C5_RejectedNeverSubmitted ==
    /\ (cur.ext \in {".SVG", ".svg"} \/ cur.size > 20 * 1024 * 1024) =>
          /\ ~cur.native_file
          /\ ~cur.asset_upload
          /\ fpc = "att_cleanup" => cur.notice
    /\ (cur.size = 20 * 1024 * 1024 /\ cur.ext \notin {".SVG", ".svg"}) =>
          ~cur.notice

\* C6: once the asset upload returned a URL for an image or a video, a failed
\* card send (non-200, non-zero code, exception) is followed by a plain-text
\* send; the chain is bounded and ends with a successful card send or at
\* least one plain-text send attempt.
C6_CardFallback ==
    /\ cur.fallback_attempts <= 1 + max_retries
    /\ fpc # "done" => ENABLED RelayNext
    /\ (fpc = "att_cleanup" /\ cur.url /\ cur.ext \in {".png", ".mp4"}) =>
          \/ cur.card = "ok"
          \/ cur.card = "failed" /\ cur.fallback_attempts >= 1

C6_Witness ==
    /\ fpc = "att_cleanup"
    /\ cur.ext = ".mp4"
    /\ cur.card = "failed"
    /\ cur.fallback_attempts = 1 + max_retries


(***************************************************************************)
(* Properties of the price watch                                           *)
(***************************************************************************)
\* the task that takes the step
Stepping(t) == tasks'[t] # tasks[t]

\* number of entries in the watch-list of a slot of the store
Entries(slot) ==
    IF slot.kind = "dict" THEN Used(slot.items) ELSE Len(slot.items)

\* C7: every step that changes the content of the in-memory store (an entry
\* added, removed, a key cleared, an entry's last_price/last_discount
\* updated by a pass) is taken by a task that holds monitor_list_lock.
C7_MutationsUnderLock ==
    [][ (data_initialized /\ Serialize(monitor_list') # Serialize(monitor_list))
            => \E t \in Tasks : Stepping(t) /\ lock.holder = t
      ]_vars

\* C8: whatever the interleaving of add, remove and clear operations with a
\* running pass, no operation ends with an exception raised because the store
\* changed under it: the pass never dies with "dictionary changed size during
\* iteration", and remove never dies with a KeyError.
C8_NoFailureUnderInterleaving ==
    \A e \in errors : e.error \notin {"RuntimeError", "KeyError"}

\* C9: whenever no operation is in progress on an initialised SteamMonitor,
\* monitor_list.json holds exactly the in-memory store.
C9_FileEqualsMemoryAtRest ==
    (data_initialized /\ Quiescent) => file = Serialize(monitor_list)

\* C10: after any sequence of completed add, remove and clear operations, no
\* key with an empty watch-list remains in the store.
C10_NoEmptyKeyAtRest ==
    (data_initialized /\ Quiescent) =>
        \A i \in Live(monitor_list) : Entries(monitor_list[i]) > 0

\* the entries listed under a key of the store, <<>> for a key that is absent
EntriesOf(ml, key) ==
    LET ki == Find(ml, key)
    IN  IF ki = 0 THEN <<>>
        ELSE IF ml[ki].kind = "dict" THEN DropDead(ml[ki].items)
        ELSE ml[ki].items

\* an operation returns in this step: at once from its first step, or from
\* a later one
ReturnsAtOnce == ops_started' # ops_started /\ tasks' = tasks
ReturnsNow ==
    \/ ReturnsAtOnce
    \/ \E t \in Tasks : tasks[t].op # "idle" /\ tasks'[t].op = "idle"

AddOps == {"add_monitor", "add_game"}

\* the entry carries the price and the discount that were fetched for it
CarriesPrice(entry, price_info) ==
    /\ price_info.ok
    /\ {"last_price", "last_discount"} \subseteq DOMAIN entry
    /\ entry.last_price = price_info.current_price
    /\ entry.last_discount = price_info.discount

\* C11: an add (add_monitor or add_game) that returns not-ok leaves the store
\* and the file as they were; a step of an add that changes the store appends
\* exactly one entry under the key, carrying the fetched price and discount;
\* and an add that returns ok has written the store to the file.
C11_AddRejectsOrInserts ==
    [][ /\ (ReturnsNow /\ last'.op \in AddOps /\ ~last'.ok) =>
              /\ Serialize(monitor_list') = Serialize(monitor_list)
              /\ file' = file
        /\ \A t \in Tasks :
              (/\ Stepping(t)
               /\ tasks[t].op \in AddOps
               /\ Serialize(monitor_list') # Serialize(monitor_list)) =>
                  LET old == EntriesOf(monitor_list, tasks[t].key)
                      new == EntriesOf(monitor_list', tasks[t].key)
                  IN  /\ Len(new) = Len(old) + 1
                      /\ SubSeq(new, 1, Len(old)) = old
                      /\ CarriesPrice(new[Len(new)], tasks[t].info)
        /\ (ReturnsNow /\ last'.op = "add_monitor" /\ last'.ok) =>
              file' = Serialize(monitor_list')
      ]_vars

\* C11 for add_monitor alone
AddMonitorRejectsOrInserts ==
    [][ /\ (ReturnsNow /\ last'.op = "add_monitor" /\ ~last'.ok) =>
              /\ Serialize(monitor_list') = Serialize(monitor_list)
              /\ file' = file
        /\ \A t \in Tasks :
              (/\ Stepping(t)
               /\ tasks[t].op = "add_monitor"
               /\ Serialize(monitor_list') # Serialize(monitor_list)) =>
                  LET old == EntriesOf(monitor_list, tasks[t].key)
                      new == EntriesOf(monitor_list', tasks[t].key)
                  IN  /\ Len(new) = Len(old) + 1
                      /\ SubSeq(new, 1, Len(old)) = old
                      /\ CarriesPrice(new[Len(new)], tasks[t].info)
                      /\ tasks'[t].op = "idle" /\ last'.ok
        /\ (ReturnsNow /\ last'.op = "add_monitor" /\ last'.ok) =>
              file' = Serialize(monitor_list')
      ]_vars

C13_AddListRemoveRoundTrip ==
    [][ \A t \in Tasks :
          (tasks[t].op # "idle" /\ tasks'[t].op = "idle" /\ last'.ok) =>
            LET key == tasks[t].key
                X == get_appid_by_name(app_dict_all, tasks[t].input)
                before == list_monitors(monitor_list, key)
                after == list_monitors(monitor_list', key)
            IN  /\ (tasks[t].op = "add_monitor" /\ Find(monitor_list, key) = 0) =>
                      /\ Len(after) = 1
                      /\ after[1].appid = tasks[t].appid
                      /\ after[1].name = tasks[t].name
                /\ (/\ tasks[t].op = "remove_monitor"
                    /\ tasks[t].input # ""
                    /\ Len(before) = 1
                    /\ X.ok /\ before[1].appid = X.appid) =>
                      /\ after = <<>>
                      /\ Find(monitor_list', key) = 0
      ]_vars

\* Limbo, which no initial file holds, was added under a key without a
\* watch-list and removed again by the two operations run so far
C13_Witness ==
    /\ Quiescent /\ ops_started = 2
    /\ last.op = "remove_monitor" /\ last.ok /\ last.input = "Limbo"
    /\ Find(monitor_list, last.key) = 0
    /\ list_monitors(monitor_list, last.key) = <<>>

\* the live keys of the store
KeysOf(ml) == {ml[i].k : i \in Live(ml)}

\* C14: a remove_monitor with empty input that returns ok has deleted the
\* key's whole watch-list; one with a name that returns ok has deleted
\* exactly the entry it resolved, and the key when that was its last entry;
\* in both cases every other key has the watch-list it had.
C14_RemoveTouchesOneKey ==
    [][ \A t \in Tasks :
          (/\ tasks[t].op = "remove_monitor"
           /\ tasks'[t].op = "idle" /\ last'.ok) =>
            LET key == tasks[t].key
                before == EntriesOf(monitor_list, key)
                after == EntriesOf(monitor_list', key)
                gone == {i \in DOMAIN before : before[i].k = tasks[t].appid}
            IN  /\ tasks[t].input = "" => key \notin KeysOf(monitor_list')
                /\ tasks[t].input # "" =>
                      /\ Cardinality(gone) = 1
                      /\ after = RemoveAt(before, CHOOSE i \in gone : TRUE)
                      /\ key \in KeysOf(monitor_list') <=> Len(before) > 1
                /\ KeysOf(monitor_list') \ {key} = KeysOf(monitor_list) \ {key}
                /\ \A k \in KeysOf(monitor_list) \ {key} :
                      EntriesOf(monitor_list', k) = EntriesOf(monitor_list, k)
      ]_vars

\* a named remove has left the key with another entry, and a second key is
\* in the store
C14_Witness ==
    /\ Quiescent
    /\ last.op = "remove_monitor" /\ last.ok /\ last.input # ""
    /\ Len(EntriesOf(monitor_list, last.key)) > 0
    /\ Cardinality(KeysOf(monitor_list)) > 1

\* the Steam id an entry of a watch-list stands for, however it is held
ItemId(entry) ==
    IF "k" \in DOMAIN entry THEN entry.k.v ELSE entry.id.v

\* C15: no key's watch-list holds two entries for the same Steam id.
C15_NoDuplicateItem ==
    \A key \in KeysOf(monitor_list) :
        LET games == EntriesOf(monitor_list, key)
        IN  \A i, j \in DOMAIN games :
                ItemId(games[i]) = ItemId(games[j]) => i = j

\* C15 read on the stored values as they are: no two entries of a list are
\* equal as Python compares their ids
NoEqualStoredId ==
    \A key \in KeysOf(monitor_list) :
        LET games == EntriesOf(monitor_list, key)
        IN  \A i, j \in DOMAIN games :
                (IF "k" \in DOMAIN games[i]
                 THEN games[i].k = games[j].k
                 ELSE games[i].id = games[j].id) => i = j

C17_PassCoversEveryEntry ==
    \A e \in errors :
        e.op = "run_monitor_prices" => e.error \notin {"ValueError", "AttributeError"}

\* C18: a pass that has updated entries returns its change-set to a caller
\* that sends the notifications (handle_price_changes), never to one that
\* drops it.
C18_ChangesReachNotifier ==
    (last.op = "run_monitor_prices" /\ last.price_changes # <<>>) =>
        last.caller = "handle_price_changes"

\* C19: an operation invoked before the catalog and the watch-lists are
\* loaded waits for data_initialized: none has returned while the event is
\* still clear.
C19_NoReturnBeforeInit ==
    last.op # "none" => data_initialized

\* C20: a get_app_list whose request fails leaves a non-empty catalog as it
\* was, entries put in by get_game_name_by_id included; with no catalog in
\* memory it loads game_list.json, and leaves both dicts empty when that
\* cannot be read.
C20_FailedRefreshKeepsCatalog ==
    [][ (refresh'.n = refresh.n + 1 /\ ~refresh'.ok) =>
          IF app_dict_all # <<>>
          THEN /\ app_dict_all' = app_dict_all
               /\ app_dict_all_reverse' = app_dict_all_reverse
          ELSE IF game_list.kind = "json"
               THEN /\ app_dict_all' = game_list.store
                    /\ app_dict_all_reverse' = game_list.store
               ELSE /\ app_dict_all' = <<>>
                    /\ app_dict_all_reverse' = <<>> ]_vars

\* C21: app_dict_all and app_dict_all_reverse are mutual inverses in every
\* state a coroutine can observe: a name maps to an id exactly when that id
\* maps back to the name.
C21_MapsMutualInverse ==
    /\ \A i \in DOMAIN app_dict_all :
          \E j \in DOMAIN app_dict_all_reverse :
             /\ app_dict_all_reverse[j].appid = app_dict_all[i].appid
             /\ app_dict_all_reverse[j].name = app_dict_all[i].name
    /\ \A j \in DOMAIN app_dict_all_reverse :
          \E i \in DOMAIN app_dict_all :
             /\ app_dict_all[i].name = app_dict_all_reverse[j].name
             /\ app_dict_all[i].appid = app_dict_all_reverse[j].appid

\* the name is a key of the name -> appid dict, and the appid it maps to
IsKey(dict, name) == \E i \in DOMAIN dict : dict[i].name = name
ExactId(dict, name) ==
    dict[CHOOSE i \in DOMAIN dict : dict[i].name = name].appid

\* C22: when the name given to add_monitor or add_game is a key of
\* app_dict_all, the operation goes on with exactly the appid stored under
\* that name, and never answers that the game was not found.
C22_ExactNameResolvesToItsId ==
    [][ /\ \A t \in Tasks :
              (/\ tasks[t].op = "idle"
               /\ tasks'[t].op \in AddOps
               /\ IsKey(app_dict_all, tasks'[t].input)) =>
                    tasks'[t].appid = ExactId(app_dict_all, tasks'[t].input)
        /\ (ReturnsAtOnce /\ last'.op \in AddOps) =>
              ~IsKey(app_dict_all, last'.input)
      ]_vars

\* the best score a name reaches against the names of the catalog, under
\* each of the two scorers
BestSetScore(dict, name) ==
    LET scores == [k \in DOMAIN dict |-> token_set_ratio(name, dict[k].name)]
    IN  IF scores = <<>> THEN 0 ELSE scores[BestIndex(scores)]
BestSortScore(dict, name) ==
    LET scores == [k \in DOMAIN dict |-> token_sort_ratio(name, dict[k].name)]
    IN  IF scores = <<>> THEN 0 ELSE scores[BestIndex(scores)]

Started(t, op) == tasks[t].op = "idle" /\ tasks'[t].op = op

\* C23: add_monitor goes on with a name exactly when its best
\* token_set_ratio is at least 70, and add_game goes on with a name that is
\* no key of the catalog exactly when its best token_sort_ratio is at least
\* 80; a best score at the threshold is accepted, one below it is answered
\* with "not found".
C23_ThresholdIsInclusive ==
    [][ /\ \A t \in Tasks :
              Started(t, "add_monitor") =>
                  BestSetScore(app_dict_all, tasks'[t].input) >= 70
        /\ (ReturnsAtOnce /\ last'.op = "add_monitor") =>
              BestSetScore(app_dict_all, last'.input) < 70
        /\ \A t \in Tasks :
              (/\ Started(t, "add_game")
               /\ ~isdigit(tasks'[t].input)
               /\ ~IsKey(app_dict_all, tasks'[t].input)) =>
                  BestSortScore(app_dict_all, tasks'[t].input) >= 80
        /\ (ReturnsAtOnce /\ last'.op = "add_game" /\ ~isdigit(last'.input)) =>
              BestSortScore(app_dict_all, last'.input) < 80
      ]_vars

\* the id is a key of the appid -> name dict, whatever Python type holds it
HasId(rev, game_id) == \E j \in DOMAIN rev : rev[j].appid.v = game_id.v

\* C24: get_game_name_by_id asks the appdetails endpoint only for an id that
\* app_dict_all_reverse does not hold; when the endpoint answers, the id and
\* the name are in both dicts, so that the same id is found the next time;
\* when it does not, None is returned and both dicts are as they were.
C24_NameByIdCachesAndBackfills ==
    [][ \A t \in Tasks :
          /\ (/\ tasks'[t].op = "get_game_name_by_id"
              /\ tasks'[t].pc = "app_details"
              /\ tasks[t].pc # "app_details") =>
                  ~HasId(app_dict_all_reverse', tasks'[t].appid)
          /\ (/\ tasks[t].op = "get_game_name_by_id"
              /\ tasks[t].pc = "app_details"
              /\ tasks'[t].op = "idle") =>
                  IF last'.ok
                  THEN /\ CachedName(app_dict_all_reverse', tasks[t].appid).ok
                       /\ \E i \in DOMAIN app_dict_all' :
                             app_dict_all'[i].appid = tasks[t].appid
                  ELSE /\ app_dict_all' = app_dict_all
                       /\ app_dict_all_reverse' = app_dict_all_reverse
      ]_vars

(***************************************************************************)
(* Properties of the translator                                            *)
(***************************************************************************)
\* C25: when translation is off or no service was created, when the text is
\* nothing but white space, or when the text holds a word of the whitelist,
\* translate_text hands nothing to the service and returns the text as it
\* was given.
C25_SkipReturnsInputUnchanged ==
    LET s == Join(text)
    IN  (\/ ~enabled
         \/ service = None
         \/ \A i \in DOMAIN s : s[i] = NL
         \/ \E item \in whitelist : \E i \in DOMAIN s : s[i] = item) =>
            /\ provider_calls = <<>>
            /\ tpc = "done" => tr_return = Str(Raw(s))

\* translate_text has returned a text with prose, a code block and a
\* whitelisted word, with a service at hand
C25_Witness ==
    /\ tpc = "done"
    /\ enabled /\ service # None
    /\ whitelist = {"kook"}
    /\ Contains(Join(text), "kook")
    /\ Contains(Join(text), "hi")
    /\ Contains(Join(text), Fence)
    /\ tr_return = Str(Raw(Join(text)))

\* the part goes to the service (lines 494-500)
GoesToService(part) ==
    /\ part.type = "text"
    /\ ~IsBlank(part.content)
    /\ ~_should_skip_translation(whitelist, part.content)

\* the text the parts give when every part that went to the service is
\* replaced by its translation if the service gave one, and is kept as it
\* was if it did not; calls are the answers of the service, in order
RECURSIVE Reassembled(_, _)
Reassembled(ps, calls) ==
    IF ps = <<>> THEN <<>>
    ELSE IF GoesToService(Head(ps)) /\ calls # <<>>
         THEN Cat(IF Head(calls).outcome = "ok"
                  THEN Translated(Head(ps).content)
                  ELSE Raw(Head(ps).content),
                  Reassembled(Tail(ps), Tail(calls)))
         ELSE Cat(Raw(Head(ps).content), Reassembled(Tail(ps), calls))

\* C26: whatever the service does, translate_text returns a text in which
\* each part the service failed on is the original part and each part it
\* translated is the translation.
C26_FailedPartKeepsOriginal ==
    (tpc = "done" /\ provider_calls # <<>>) =>
        tr_return = Str(Reassembled(
                          IF parts = <<>>
                          THEN <<Part(FALSE, Join(text))>>
                          ELSE parts,
                          provider_calls))

\* the parts of a text when a code block runs from its opening fence to its
\* closing fence, both included (to the end of the text when it is not
\* closed)
RECURSIVE BlocksFrom(_, _, _, _)
BlocksFrom(lines, parts_made, is_in_code_block, current_part) ==
    IF lines = <<>>
    THEN IF current_part # <<>>
         THEN Append(parts_made, Part(is_in_code_block, current_part))
         ELSE parts_made
    ELSE LET line == Head(lines)
             flushed == IF current_part # <<>>
                        THEN Append(parts_made,
                                    Part(is_in_code_block, current_part))
                        ELSE parts_made
         IN  IF IsFence(line) /\ ~is_in_code_block
             THEN BlocksFrom(Tail(lines), flushed, TRUE, Word(line) \o <<NL>>)
             ELSE IF IsFence(line)
             THEN BlocksFrom(Tail(lines),
                             Append(parts_made,
                                    Part(TRUE, current_part \o Word(line)
                                                  \o <<NL>>)),
                             FALSE, <<>>)
             ELSE BlocksFrom(Tail(lines), parts_made, is_in_code_block,
                             current_part \o Word(line) \o <<NL>>)

\* C27: for a text with code blocks, no fence line is handed to the service,
\* and when the service translates all it is given the result is the parts
\* of the text in order, every part outside the code blocks translated and
\* every code block as it was.
C27_OnlyProseIsTranslated ==
    /\ \A k \in DOMAIN provider_calls : ~Contains(provider_calls[k].q, Fence)
    /\ (/\ tpc = "done"
        /\ parts # <<>>
        /\ \A k \in DOMAIN provider_calls : provider_calls[k].outcome = "ok") =>
            tr_return = Str(Reassembled(BlocksFrom(text, <<>>, FALSE, <<>>),
                                        provider_calls))

(***************************************************************************)
(* Properties of the forwarded text                                        *)
(***************************************************************************)
\* the translation is shown under the marker
Appended ==
    /\ Len(forwarded_content) = 5
    /\ forwarded_content[4] = Marker
    /\ forwarded_content[5] = translated_content

\* C28: once _build_forward_message has returned, the translation is
\* appended to the forwarded text exactly when translation is enabled, the
\* outbound text is not empty and the translated text differs from it; and
\* when it is not appended the text has the untranslated format.
C28_TranslationAppendedIffDifferent ==
    fpc = "text" =>
        LET content == OutboundContent(msg)
            differs == translated_content # None /\ translated_content # "same"
        IN  /\ Appended <=> (translator_enabled /\ content # "" /\ differs)
            /\ ~Appended =>
                  forwarded_content = (IF content = "" THEN <<>>
                                       ELSE <<Prefix, Author, content>>)

(***************************************************************************)
(* Properties of the tasks of the event loop                               *)
(***************************************************************************)
\* C29: no exception of one message or of one tick ends the handler or a
\* recurring task: forward_message returns, and returns a bool; no recurring
\* task ever leaves its while loop; and a task that waits after a failing
\* tick performs a later tick.
C29_FailuresEndNoTask ==
    /\ <>(fpc = "done")
    /\ [](fpc = "done" => result \in BOOLEAN)
    /\ [](\A l \in Loops : loops[l].pc # "ended")
    /\ \A l \in Loops : (loops[l].pc = "backoff") ~> (loops[l].pc = "tick")

C29_Witness ==
    /\ fpc = "done"
    /\ translated_content = "notAString"
    /\ result = FALSE
    /\ loops["start_cleanup_task"] = [pc |-> "tick", last |-> "raised"]
    /\ loops["run_price_check"] = [pc |-> "tick", last |-> "raised"]

(***************************************************************************)
(* Properties of a download that gives no file                             *)
(***************************************************************************)
\* _download_attachment has just returned
DownloadReturned ==
    /\ fpc = "att_loop"
    /\ att_i <= msg.attachments
    /\ "download" \in effects'

\* C30: when the download of an attachment returns no file, the loop goes
\* to the next attachment at once: nothing but the download was attempted
\* for it, no upload and no cleanup; and an attachment that is being sent or
\* cleaned up is one whose download returned a file.
C30_NoFileNoUploadNoRetry ==
    /\ [][(DownloadReturned /\ ~cur'.file_path) =>
             /\ fpc' = "att_loop"
             /\ att_i' = att_i + 1
             /\ att_results' = Append(att_results, "download_failed")
             /\ effects' = effects \cup {"download"}
             /\ stm' = stm]_vars
    /\ [](fpc \in {"sf_native", "sf_check", "sf_upload", "image_card",
                   "video_card", "att_cleanup"} => cur.file_path)

C30_Witness ==
    /\ fpc = "done"
    /\ msg.attachments = 1
    /\ att_results = <<"download_failed">>
    /\ "download" \in effects
    /\ effects \cap {"upload", "cleanup"} = {}

\* the segments one after the other
RECURSIVE Concatenated(_)
Concatenated(ps) ==
    IF ps = <<>> THEN <<>> ELSE Head(ps).content \o Concatenated(Tail(ps))

\* C40: the segments of a text with a code block, one after the other, are
\* the text; so when the service returns everything it is given unchanged,
\* translate_text returns the text unchanged.
C40_SegmentsGiveTheText ==
    /\ parts # <<>> => Concatenated(parts) = Join(text)
    /\ (/\ tpc = "done"
        /\ parts # <<>>
        /\ \A k \in DOMAIN provider_calls : provider_calls[k].outcome = "failed")
            => tr_return = Str(Raw(Join(text)))

(***************************************************************************)
(* Properties of the delivery of the text                                  *)
(***************************************************************************)
\* C37: when forward_message has returned for a message whose destination
\* resolved and for which a non-empty outbound text was built, a send of the
\* text was attempted, through the channel of the KOOK client or through the
\* HTTP message-create call.
C37_TextSendAttempted ==
    (/\ fpc = "done"
     /\ kook_channel_id # None
     /\ forwarded_content # <<>>) => "text_send" \in effects

(***************************************************************************)
(* Properties of the forwarding rules                                      *)
(***************************************************************************)
\* the destination the rules give a channel: the one of the last pair of
\* FORWARD_RULES whose source is the channel, None when no pair names it
RECURSIVE LastRuleFor(_, _, _)
LastRuleFor(pairs, c, found) ==
    IF pairs = <<>> THEN found
    ELSE LastRuleFor(Tail(pairs), c,
                     IF Len(Head(pairs)) = 2 /\ StripId(Head(pairs)[1]) = c
                     THEN StripId(Head(pairs)[2]) ELSE found)

\* C33: the rules parsed from FORWARD_RULES give each source channel one
\* destination, and the lookup of a channel gives the destination of that
\* very channel, None when the channel is no source: a message that passes
\* the policy goes on with that destination, or is dropped when there is
\* none.
C33_ExactUniqueDestination ==
    /\ [](\A c \in DiscordChannels \cup {"d11"} :
            get_kook_channel_id(config, c) = LastRuleFor(config.rules_str, c, None))
    /\ [][(fpc = "start" /\ should_forward_message(config, msg.bot)) =>
             LET d == LastRuleFor(config.rules_str, msg.channel, None)
             IN  IF Truthy(d)
                 THEN kook_channel_id' = d /\ fpc' = "build"
                 ELSE kook_channel_id' = None /\ fpc' = "done" /\ ~result'
         ]_vars

C33_Witness ==
    /\ fpc = "build"
    /\ Len(config.rules_str) = 2
    /\ msg.channel = "d1"
    /\ kook_channel_id = "k1"

(***************************************************************************)
(* Properties of the format of the store                                   *)
(***************************************************************************)
\* C34: every value of the store is a mapping from item ids to entries
\* whose last_price and last_discount are numbers, whatever add operations
\* ran.
C34_EntriesCarryNumbers ==
    \A i \in Live(monitor_list) :
        /\ monitor_list[i].kind = "dict"
        /\ \A j \in Live(monitor_list[i].items) :
              LET entry == monitor_list[i].items[j]
              IN  /\ {"last_price", "last_discount"} \subseteq DOMAIN entry
                  /\ entry.last_price \in Nat
                  /\ entry.last_discount \in Nat

\* C35: every key of the store splits at "_" into the user id and the
\* channel id of one subscriber.
C35_KeySplitsIntoItsPair ==
    \A i \in Live(monitor_list) :
        \E user_id \in Users, channel_id \in Channels :
            Split(monitor_list[i].k) = <<user_id, channel_id>>

(***************************************************************************)
(* Properties of the start of the price watch                              *)
(***************************************************************************)
\* C38: initialization runs at most once: the catalog is loaded once and no
\* run of initialize finds the scheduler already started, also when
\* get_monitored_games is called while the initialization of the startup is
\* in progress.
C38_InitializesOnce ==
    /\ refresh.n <= 1
    /\ \A e \in errors : e.error # "SchedulerAlreadyRunningError"

(***************************************************************************)
(* Properties of the two bots' watch-lists                                 *)
(***************************************************************************)
\* the entry of item k under key is in the store ml
Holds(ml, key, k) ==
    /\ Find(ml, key) # 0
    /\ Find(ml[Find(ml, key)].items, k) # 0

\* C39: the file holds every entry that was added through either bot (no
\* entry is removed in these behaviours): an add persisted through one bot's
\* SteamMonitor erases no entry added through the other's.
C39_FileKeepsBothBotsAdds ==
    \A b \in Bots : \A i \in Live(steam_monitors[b]) :
        \A j \in Live(steam_monitors[b][i].items) :
            Holds(file.store, steam_monitors[b][i].k,
                  steam_monitors[b][i].items[j].k)


(***************************************************************************)
(* Properties of the Discord price-check loop                              *)
(***************************************************************************)
\* C36: each tick of the price-check loop of the Discord bot does its work,
\* the price pass and the notifications, to the end: no tick of
\* run_price_check ends with an exception.
C36_PriceCheckTickRunsAPass ==
    loops["run_price_check"].last # "raised"


(***************************************************************************)
(* Deletion of downloaded files: the scheduled deletion of one file        *)
(* (message_forwarder.py 559-572), the periodic sweep of the forwarder     *)
(* (591-648) and the periodic sweep of CleanupService (cleanup.py 47-79).  *)
(* Ages are in hours.  The forwarder's sweep and the scheduled deletion    *)
(* are coroutines of the Discord bot's event loop and neither awaits       *)
(* between two file-system calls, so each runs to its end without the      *)
(* other; the sweep of CleanupService is a task of the loop of the main    *)
(* thread (bot.py 121-122), so its file-system calls interleave with those *)
(* of the Discord bot's thread.                                            *)
(***************************************************************************)
IMAGE_MAX_AGE_DAYS == 7
VIDEO_MAX_AGE_DAYS == 3
OTHER_MAX_AGE_DAYS == 1
CLEANUP_MAX_AGE == 72

Sweeps == {"_cleanup_old_files", "cleanup_old_files"}

\* the directories a pass walks, in order, with the max_age it applies
Plan(impl) ==
    IF impl = "_cleanup_old_files"
    THEN << [directory |-> "images", max_age |-> IMAGE_MAX_AGE_DAYS * 24,
             exclude_dirs |-> FALSE],
            [directory |-> "videos", max_age |-> VIDEO_MAX_AGE_DAYS * 24,
             exclude_dirs |-> FALSE],
            [directory |-> "root", max_age |-> OTHER_MAX_AGE_DAYS * 24,
             exclude_dirs |-> TRUE] >>
    ELSE << [directory |-> "images", max_age |-> CLEANUP_MAX_AGE,
             exclude_dirs |-> FALSE],
            [directory |-> "videos", max_age |-> CLEANUP_MAX_AGE,
             exclude_dirs |-> FALSE] >>

\* directory.iterdir() / dir_path.glob("*"): the entries that are there when
\* the directory is read
ListingOrder == <<"a.png", "thumbs", "b.png", "v.mp4", "images", "r.bin">>
Listing(d, directory) ==
    SelectSeq(ListingOrder, LAMBDA n : Folder(n) = directory /\ d[n].present)

\* item.unlink()
Unlinked(d, n, who) == [d EXCEPT ![n].present = FALSE, ![n].by = who]

SweepInit ==
    /\ \E a \in {72, 73, 168, 169}, b \in {73, 169}, v \in {72, 73},
          r \in {24, 25} :
          disk = [n \in Files \cup Dirs |->
                    [present |-> TRUE,
                     age |-> CASE n = "a.png" -> a
                               [] n = "b.png" -> b
                               [] n = "v.mp4" -> v
                               [] n = "r.bin" -> r
                               [] OTHER -> 200,
                     by |-> None]]
    /\ sweep = NoSweep
    /\ ttl \in {[file_path |-> f, pc |-> "sleep", failed |-> FALSE] : f \in Files}
    /\ RelayIdle
    /\ WatchIdle
    /\ TranslateIdle
    /\ LoopsCreated
    /\ BotsIdle

\* the Discord bot's event loop runs one of its coroutines at a time
ForwarderSweeping ==
    sweep.impl = "_cleanup_old_files" /\ sweep.pc \notin {"idle", "done"}
LoopAllows(impl) == impl = "_cleanup_old_files" => ttl.pc # "unlink"

SweepUnchanged ==
    /\ UNCHANGED relayVars
    /\ UNCHANGED watchVars
    /\ UNCHANGED translateVars
    /\ UNCHANGED loopVars
    /\ UNCHANGED botsVars

\* _cleanup_file_after_delay: the sleep is over, file_path.exists()
TtlExists ==
    /\ ttl.pc = "sleep"
    /\ ~ForwarderSweeping
    /\ ttl' = [ttl EXCEPT !.pc = IF disk[ttl.file_path].present
                                 THEN "unlink" ELSE "done"]
    /\ UNCHANGED <<disk, sweep>>
    /\ SweepUnchanged

\* _cleanup_file_after_delay: file_path.unlink(); FileNotFoundError is caught
\* at line 571
TtlUnlink ==
    /\ ttl.pc = "unlink"
    /\ IF disk[ttl.file_path].present
       THEN /\ disk' = Unlinked(disk, ttl.file_path, "ttl")
            /\ ttl' = [ttl EXCEPT !.pc = "done"]
       ELSE /\ ttl' = [ttl EXCEPT !.pc = "done", !.failed = TRUE]
            /\ UNCHANGED disk
    /\ UNCHANGED sweep
    /\ SweepUnchanged

\* _cleanup_old_files / cleanup_old_files is called
StartSweep(impl) ==
    /\ sweep.pc = "idle"
    /\ LoopAllows(impl)
    /\ sweep' = [NoSweep EXCEPT !.impl = impl, !.pc = "iterdir",
                                !.dirs = Plan(impl)]
    /\ UNCHANGED <<disk, ttl>>
    /\ SweepUnchanged

\* the next directory is read, or the pass returns
SweepIterdir ==
    /\ sweep.pc = "iterdir"
    /\ LoopAllows(sweep.impl)
    /\ sweep' = IF sweep.dirs = <<>>
                THEN [sweep EXCEPT !.pc = "done"]
                ELSE [sweep EXCEPT !.pc = "item",
                        !.listing = Listing(disk, Head(sweep.dirs).directory)]
    /\ UNCHANGED <<disk, ttl>>
    /\ SweepUnchanged

\* the next entry of the directory: is_dir() / is_file(), which is False for
\* a directory and for an entry that is gone
SweepIsFile ==
    /\ sweep.pc = "item"
    /\ LoopAllows(sweep.impl)
    /\ sweep' = IF sweep.listing = <<>>
                THEN [sweep EXCEPT !.pc = "iterdir", !.dirs = Tail(@)]
                ELSE LET n == Head(sweep.listing)
                     IN  [sweep EXCEPT
                            !.listing = Tail(@),
                            !.item = n,
                            !.seen = @ \cup {n},
                            !.pc = IF n \in Dirs \/ ~disk[n].present
                                   THEN "item" ELSE "stat"]
    /\ UNCHANGED <<disk, ttl>>
    /\ SweepUnchanged

\* an exception inside the loop over a directory: _cleanup_directory catches
\* it at line 647 and returns, the pass goes to the next directory;
\* cleanup_old_files has no handler around stat(), the exception leaves it
Raised(s, exc) ==
    IF s.impl = "_cleanup_old_files"
    THEN [s EXCEPT !.caught = @ \cup {s.item}, !.pc = "iterdir",
                   !.dirs = Tail(@)]
    ELSE [s EXCEPT !.error = exc, !.pc = "done"]

\* item.stat().st_mtime and the comparison of the age with max_age
SweepStat ==
    /\ sweep.pc = "stat"
    /\ LoopAllows(sweep.impl)
    /\ sweep' = IF ~disk[sweep.item].present
                THEN Raised(sweep, "FileNotFoundError")
                ELSE [sweep EXCEPT
                        !.pc = IF disk[sweep.item].age > Head(sweep.dirs).max_age
                               THEN "unlink" ELSE "item"]
    /\ UNCHANGED <<disk, ttl>>
    /\ SweepUnchanged

\* item.unlink(); cleanup_old_files catches its exception at line 75 and goes
\* on with the next entry
SweepUnlink ==
    /\ sweep.pc = "unlink"
    /\ LoopAllows(sweep.impl)
    /\ IF disk[sweep.item].present
       THEN /\ disk' = Unlinked(disk, sweep.item, sweep.impl)
            /\ sweep' = [sweep EXCEPT !.pc = "item"]
       ELSE /\ UNCHANGED disk
            /\ sweep' = IF sweep.impl = "_cleanup_old_files"
                        THEN Raised(sweep, "FileNotFoundError")
                        ELSE [sweep EXCEPT !.caught = @ \cup {sweep.item},
                                           !.pc = "item"]
    /\ UNCHANGED ttl
    /\ SweepUnchanged

SweepNext ==
    \/ TtlExists
    \/ TtlUnlink
    \/ \E impl \in Sweeps : StartSweep(impl)
    \/ SweepIterdir
    \/ SweepIsFile
    \/ SweepStat
    \/ SweepUnlink

SweepSpec == SweepInit /\ [][SweepNext]_vars

(***************************************************************************)
(* Properties of the deletion of downloaded files                          *)
(***************************************************************************)
Walked(impl) == {Plan(impl)[i].directory : i \in 1..Len(Plan(impl))}

\* C31: when the scheduled deletion and a pass of a sweep meet on one file,
\* whichever comes first deletes it and the other does nothing: the pass
\* raises no error, and when it is over it has reached every file of its
\* directories but those the scheduled deletion removed.
C31_DeletionRaceIsHarmless ==
    /\ sweep.error = None
    /\ sweep.pc = "done" =>
          \A n \in Files :
              Folder(n) \in Walked(sweep.impl) =>
                  n \in sweep.seen \/ disk[n].by = "ttl"

\* the max-age of a category: images 7 days, videos 3 days, root 1 day
CategoryMaxAge(folder) ==
    CASE folder = "images" -> IMAGE_MAX_AGE_DAYS * 24
      [] folder = "videos" -> VIDEO_MAX_AGE_DAYS * 24
      [] OTHER -> OTHER_MAX_AGE_DAYS * 24

\* C32: a pass of a sweep deletes an entry only if it is a file whose age
\* exceeds the max-age of its category (images 7 days, videos 3 days, root
\* 1 day), never a directory, and a pass that is over has left no file whose
\* age exceeds the max-age of its category.
C32_SweepDeletesTheExpired ==
    /\ [][\A n \in Files \cup Dirs :
            (disk[n].present /\ ~disk'[n].present /\ disk'[n].by \in Sweeps)
                => n \in Files /\ disk[n].age > CategoryMaxAge(Folder(n))]_vars
    /\ [](sweep.pc = "done" =>
            \A n \in Files :
                disk[n].present => disk[n].age <= CategoryMaxAge(Folder(n)))

=============================================================================
